---- MODULE Spec2Model ----
(***************************************************************************)
(* A model of the Ansible customer-configuration client of the dashboard:  *)
(* the cron field codec (renderCron / collectFormData), the variable       *)
(* categorizer (categorizeVars) and the inventory client with its cache    *)
(* (loadInventory, getCustomerVars, saveCustomerVars) together with the    *)
(* AnsibleUI handlers that drive them; further the promise convention of  *)
(* the AnsibleModule and CronModule operations, the run button, the        *)
(* containers panel (list, stats, selection, batches) and the networks     *)
(* panel (list, removal), the section loader of the page and the job list *)
(* of the cron panel.                                                      *)
(*                                                                         *)
(* JavaScript strings are modelled as sequences of one-character strings,  *)
(* so that startsWith / includes / split / replace / join are computed     *)
(* character by character as the engine computes them.                     *)
(***************************************************************************)
EXTENDS Integers, Sequences, FiniteSets, Bags, TLC

VARIABLES
    \* ---- cron field codec (SpecCron) ----
    cronPc,        \* "value" | "form" | "rendered" | "collected" | "reloaded"
    cronValue,     \* the schedule string handed to renderCron
    cronDom,       \* the <input> elements of the container, in document order
    cronEdited,    \* how many times the user typed into a sub-input
    cronFields,    \* the five fields of a hand-made form (<<>> when none)
    cronOut,       \* the string collectFormData returned (<<>> before)
    \* ---- variable categorizer (SpecCat) ----
    catPc,         \* "input" | "done"
    catVars,       \* the vars object handed to categorizeVars
    catOut,        \* the object categorizeVars returned (EmptyObj before)
    \* ---- inventory client (SpecInv) ----
    srvInv,        \* the inventory document held by the server of record
    inventoryData, \* AnsibleModule's cache (let inventoryData = {})
    loads,         \* the loadInventory calls in flight, each with its stage
    saves,         \* the saveCustomerVars calls in flight, each with its stage
    loadCalls,     \* how many loadInventory calls were made
    saveCalls,     \* how many saveCustomerVars calls were made
    lastRead,      \* what the latest getCustomerVars call returned
    lastLoaded,    \* the data the latest resolved loadInventory resolved with,
                   \* the cache it found, and whether a call was rejected since
    lastSaved,     \* the arguments of the latest resolved saveCustomerVars
    \* ---- customer configuration tabs (SpecTabs) ----
    srvCust,       \* the vars the server holds for each customer
    customerSelect,\* the value of the #customerSelect element ("" for none)
    custReqs,      \* the getCustomer calls in flight, each with its stage
    tabsDom,       \* the inputs of each of the five tab containers
    tabsLoaded,    \* the customer and data.vars the tabs were last rendered from
    tabsDirty,     \* TRUE when the user edited an input since that rendering
    tabEdits,      \* how many edits the user made
    selects,       \* how many change events the select received
    customerStateText, \* the text of #customerStateText
    currentCustomer,   \* AnsibleModule's currentCustomer
    uiSaves,       \* the POSTs of AnsibleUI.saveCustomerVars in flight
    saveClicks,    \* how many times the save button posted
    lastPost,      \* the body of the latest such POST and what was loaded then
    \* ---- client operations and their promises (SpecOps) ----
    opsInFlight,   \* the calls of client operations in flight, each with its stage
    opCalls,       \* how many client operations were called
    currentJobs,   \* CronModule's cache (let currentJobs = [])
    lastSettled,   \* the latest settled promise: operation, parsed body, outcome
    \* ---- containers panel of DockerContainersUI (SpecCtr) ----
    srvCtr,        \* the status the docker host holds for each container
    currentContainers, \* DockerContainersModule's cache of the container list
    ctrInit,       \* initContainersSection: its position and what it registered
    ctrReqs,       \* the list and stats requests in flight, each with its caller
    ctrRows,       \* the containers that have a row in #containersTableBody
    ctrChecked,    \* the rows whose checkbox is checked
    ctrSelectAll,  \* #selectAllContainers.checked
    ctrFilter,     \* currentFilters.status
    selectedContainers, \* the Set selectedContainers
    statsDom,      \* where the text of each statistics field came from
    batch,         \* the batch in progress: its closure (completed, results),
                   \* its requests in flight, what it sent and what it showed
    ctrUser,       \* how many toggles, redisplays, refreshes, batches the user made
    \* ---- the run button of AnsibleUI (SpecRun) ----
    runReqs,       \* the POSTs to /api/run in flight, each with its payload
    runClicks,     \* how many times the run button was clicked
    runToast,      \* the latest toast of AnsibleUI.runPlaybook
    lastRun,       \* the latest run request: customer, effective vars, extra_vars
    \* ---- the networks panel (SpecNet) ----
    netPc,         \* "start" before initNetworksSection, then "ready"
    srvNets,       \* the server's networks: id -> [present, containers]
    currentNetworks,   \* the cache of DockerNetworksModule, a list of networks
    netReqs,       \* the list and remove requests in flight
    networkIdToRemove, \* the text of the remove-by-ID/name input
    netClicks,     \* how many removals the user asked for
    totalNetworks, \* the text refreshStats wrote last
    netToast,      \* the latest toast of the networks panel
    lastRemove,    \* the latest remove request with the cached network it is for
    \* ---- the section loader (SpecSec) ----
    currentSection,    \* the global currentSection
    loadedSections,    \* the global Set loadedSections
    mainContent,   \* the .content-section elements of the page in document order
    secFetches,    \* the fetches of /section/<id> in flight, each with its caller
    menuTitle,     \* the section whose title the latest showSection wrote
    secCalls,      \* how many calls the user made
    secUsed,       \* the functions called so far
    secLast,       \* the latest call: function, section, and the state before it
    \* ---- the job list of the cron panel (SpecJobs) ----
    getCurrentJobsFn,  \* what CronModule.getCurrentJobs is: the module's
                       \* function, or the arrow function returning the samples
    jobReqs,       \* the getCronJobs calls of loadCronJobs in flight
    cronJobsTable, \* the job list displayCronJobs wrote last
    jobLoads,      \* how many times loadCronJobs was called
    lastJobsLoad   \* how the latest settled loadCronJobs ended, with its jobs

cronVars == <<cronPc, cronValue, cronDom, cronEdited, cronFields, cronOut>>
catVarsAll == <<catPc, catVars, catOut>>

invVars == <<srvInv, inventoryData, loads, saves, loadCalls, saveCalls,
             lastRead, lastLoaded, lastSaved>>

tabVars == <<srvCust, customerSelect, custReqs, tabsDom, tabsLoaded, tabsDirty,
             tabEdits, selects, customerStateText, currentCustomer, uiSaves,
             saveClicks, lastPost>>

opsVars == <<opsInFlight, opCalls, currentJobs, lastSettled>>

ctrVars == <<srvCtr, currentContainers, ctrInit, ctrReqs, ctrRows, ctrChecked,
             ctrSelectAll, ctrFilter, selectedContainers, statsDom, batch, ctrUser>>

\* the parts added to the dashboard model after the customer tabs
runVars == <<runReqs, runClicks, runToast, lastRun>>

netVars == <<netPc, srvNets, currentNetworks, netReqs, networkIdToRemove,
             netClicks, totalNetworks, netToast, lastRemove>>

secVars == <<currentSection, loadedSections, mainContent, secFetches, menuTitle,
             secCalls, secUsed, secLast>>

jobVars == <<getCurrentJobsFn, jobReqs, cronJobsTable, jobLoads, lastJobsLoad>>

extVars == <<opsVars, ctrVars, runVars, netVars, secVars, jobVars>>

vars == <<cronVars, catVarsAll, invVars, tabVars, extVars>>

\* the state of the parts a specification leaves alone
notCron == <<catVarsAll, invVars, tabVars, extVars>>
notCat == <<cronVars, invVars, tabVars, extVars>>
notInv == <<cronVars, catVarsAll, tabVars, extVars>>
notTabs == <<cronVars, catVarsAll, invVars, extVars>>

(***************************************************************************)
(* String primitives (ECMAScript String.prototype / Array.prototype).      *)
(***************************************************************************)

\* the characters the engine treats as white space that occur in the model
WhiteSpace == {" ", "\t"}

\* s has p at 1-based position i
matchAt(s, p, i) ==
    /\ i >= 1
    /\ i + Len(p) - 1 <= Len(s)
    /\ SubSeq(s, i, i + Len(p) - 1) = p

\* String.prototype.startsWith
startsWith(s, p) == matchAt(s, p, 1)

\* String.prototype.indexOf, 1-based; 0 where JavaScript gives -1
indexOf(s, p) ==
    LET hits == {i \in 1..(Len(s) + 1) : matchAt(s, p, i)}
    IN  IF hits = {} THEN 0 ELSE CHOOSE i \in hits : \A j \in hits : i <= j

\* String.prototype.includes
includes(s, p) == indexOf(s, p) # 0

\* String.prototype.split with a non-empty string separator
RECURSIVE split(_, _)
split(s, sep) ==
    LET i == indexOf(s, sep)
    IN  IF i = 0
        THEN <<s>>
        ELSE <<SubSeq(s, 1, i - 1)>> \o split(SubSeq(s, i + Len(sep), Len(s)), sep)

\* Array.prototype.join
RECURSIVE join(_, _)
join(parts, sep) ==
    IF Len(parts) = 0 THEN <<>>
    ELSE IF Len(parts) = 1 THEN parts[1]
    ELSE parts[1] \o sep \o join(Tail(parts), sep)

\* String.prototype.replace with a string pattern: the first occurrence only
replace(s, pat, rep) ==
    LET i == indexOf(s, pat)
    IN  IF i = 0
        THEN s
        ELSE SubSeq(s, 1, i - 1) \o rep \o SubSeq(s, i + Len(pat), Len(s))

\* parts[i] || dflt for a 0-based index i into an array of strings:
\* undefined (past the end) and the empty string are both falsy
orDefault(parts, i, dflt) ==
    IF i + 1 <= Len(parts) /\ parts[i + 1] # <<>> THEN parts[i + 1] ELSE dflt

\* the value an HTML parser reads back from  value="${v}"  : the attribute
\* ends at the first double quote of the interpolated text
attrValue(v) ==
    LET i == indexOf(v, <<"\"">>)
    IN  IF i = 0 THEN v ELSE SubSeq(v, 1, i - 1)

STAR == <<"*">>
SPACE == <<" ">>

(***************************************************************************)
(* DOM <input> elements, as collectFormData sees them.                     *)
(***************************************************************************)

\* <input data-key=key type=type value=value> (checkbox: checked)
keyInput(key, type, value, checked) ==
    [key |-> key, cronField |-> <<>>, cronPart |-> "",
     type |-> type, value |-> value, checked |-> checked]

\* <input type="text" data-cron-part=part data-cron-field=name value=value>
cronInput(name, part, value) ==
    [key |-> <<>>, cronField |-> attrValue(name), cronPart |-> part,
     type |-> "text", value |-> attrValue(value), checked |-> FALSE]

(***************************************************************************)
(* renderCron: the sub-inputs generated for one schedule string.           *)
(***************************************************************************)
renderCron(name, value) ==
    LET parts == split(value, SPACE)
    IN  << cronInput(name, "minute",  orDefault(parts, 0, STAR)),
           cronInput(name, "hour",    orDefault(parts, 1, STAR)),
           cronInput(name, "day",     orDefault(parts, 2, STAR)),
           cronInput(name, "weekday", orDefault(parts, 4, STAR)) >>

(***************************************************************************)
(* Values of a form-data / vars object. One record shape for every         *)
(* JavaScript type, so that values of different types compare unequal.     *)
(***************************************************************************)
Bool(b)  == [type |-> "boolean", b |-> b,     s |-> <<>>, n |-> 0, a |-> <<>>]
Text(s)  == [type |-> "string",  b |-> FALSE, s |-> s,    n |-> 0, a |-> <<>>]
Num(n)   == [type |-> "number",  b |-> FALSE, s |-> <<>>, n |-> n, a |-> <<>>]
Arr(a)   == [type |-> "array",   b |-> FALSE, s |-> <<>>, n |-> 0, a |-> a]

\* ToBoolean of a value
truthy(v) ==
    CASE v.type = "boolean" -> v.b
      [] v.type = "string"  -> v.s # <<>>
      [] v.type = "number"  -> v.n # 0
      [] OTHER              -> TRUE

\* the empty object {}
EmptyObj == <<>>

\* obj[k] = v
put(obj, k, v) == [x \in (DOMAIN obj) \cup {k} |-> IF x = k THEN v ELSE obj[x]]

\* { ...a, ...b } and Object.assign(a, b): b's entries win
spread(a, b) ==
    [x \in (DOMAIN a) \cup (DOMAIN b) |-> IF x \in DOMAIN b THEN b[x] ELSE a[x]]

(***************************************************************************)
(* collectFormData: the object read back from the inputs of a container.   *)
(***************************************************************************)

\* { minute: 0, hour: 1, day: 2, month: 3, weekday: 4 }[cronPart];
\* -1 stands for undefined
cronIndex(part) ==
    CASE part = "minute"  -> 0
      [] part = "hour"    -> 1
      [] part = "day"     -> 2
      [] part = "month"   -> 3
      [] part = "weekday" -> 4
      [] OTHER            -> -1

\* the body of inputs.forEach for one input
collectInput(input, formData) ==
    IF input.key # <<>>
    THEN put(formData, input.key,
             IF input.type = "checkbox" THEN Bool(input.checked)
                                        ELSE Text(input.value))
    ELSE IF input.cronField # <<>>
    THEN LET f     == input.cronField
             fd1   == IF f \notin DOMAIN formData \/ ~truthy(formData[f])
                      THEN put(formData, f, Arr(<<STAR, STAR, STAR, STAR, STAR>>))
                      ELSE formData
             index == cronIndex(input.cronPart)
         IN  IF index # -1 /\ fd1[f].type = "array"
             THEN put(fd1, f,
                      Arr([fd1[f].a EXCEPT ![index + 1] =
                              IF input.value # <<>> THEN input.value ELSE STAR]))
             ELSE fd1
    ELSE formData

RECURSIVE collectInputs(_, _)
collectInputs(inputs, formData) ==
    IF inputs = <<>>
    THEN formData
    ELSE collectInputs(Tail(inputs), collectInput(Head(inputs), formData))

\* the closing pass: every array becomes its elements joined by one space
joinCronArrays(formData) ==
    [k \in DOMAIN formData |->
        IF formData[k].type = "array"
        THEN Text(join(formData[k].a, SPACE))
        ELSE formData[k]]

collectFormData(inputs) == joinCronArrays(collectInputs(inputs, EmptyObj))

(***************************************************************************)
(* categorizeVars: the string literals of its rules.                       *)
(***************************************************************************)
K_customer_domain ==
    <<"c","u","s","t","o","m","e","r","_","d","o","m","a","i","n">>
K_customer_url ==
    <<"c","u","s","t","o","m","e","r","_","u","r","l">>
K_customer_subdomain_ ==
    <<"c","u","s","t","o","m","e","r","_","s","u","b","d","o","m","a","i","n","_">>
K_customer_backup_ ==
    <<"c","u","s","t","o","m","e","r","_","b","a","c","k","u","p","_">>
K_customer_test_ ==
    <<"c","u","s","t","o","m","e","r","_","t","e","s","t","_">>
K_customer_state ==
    <<"c","u","s","t","o","m","e","r","_","s","t","a","t","e">>
K_customer_ ==
    <<"c","u","s","t","o","m","e","r","_">>
K_MYSQL ==
    <<"_","m","y","s","q","l","_">>
K_GIT ==
    <<"_","g","i","t">>
K_UPDATE ==
    <<"_","u","p","d","a","t","e">>
K_SUBDOMAIN ==
    <<"s","u","b","d","o","m","a","i","n">>
K_CRON ==
    <<"c","r","o","n","_">>
M_gateway ==
    <<"g","a","t","e","w","a","y">>
M_portal ==
    <<"p","o","r","t","a","l">>
M_portal_frontend ==
    <<"p","o","r","t","a","l","_","f","r","o","n","t","e","n","d">>
M_lms ==
    <<"l","m","s">>
M_file ==
    <<"f","i","l","e">>

\* let modulesList = ["gateway", "portal", "portal_frontend", "lms", "file"]
modulesList == <<M_gateway, M_portal, M_portal_frontend, M_lms, M_file>>

\* a list test that accepts every service a listed module is a prefix of
inModulesListPrefix(service) ==
    \E i \in DOMAIN modulesList : startsWith(service, modulesList[i])

\* modulesList.includes(service)
inModulesList(service) == \E i \in DOMAIN modulesList : modulesList[i] = service

(***************************************************************************)
(* categorizeVars.                                                         *)
(***************************************************************************)

\* ruleOf with the _mysql_ test moved in front of the backup and test rules
ruleOfMysqlFirst(key) ==
    IF \/ key = K_customer_domain
       \/ key = K_customer_url
       \/ startsWith(key, K_customer_subdomain_)
    THEN "domain"
    ELSE IF includes(key, K_MYSQL) THEN "mysql"
    ELSE IF startsWith(key, K_customer_backup_) THEN "backup"
    ELSE IF startsWith(key, K_customer_test_) THEN "test"
    ELSE IF /\ startsWith(key, K_customer_)
            /\ ~includes(key, K_SUBDOMAIN)
            /\ key # K_customer_state
    THEN "module"
    ELSE "none"

\* the branch of the if / else-if chain that a key takes
ruleOf(key) ==
    IF \/ key = K_customer_domain
       \/ key = K_customer_url
       \/ startsWith(key, K_customer_subdomain_)
    THEN "domain"
    ELSE IF startsWith(key, K_customer_backup_) THEN "backup"
    ELSE IF startsWith(key, K_customer_test_) THEN "test"
    ELSE IF includes(key, K_MYSQL) THEN "mysql"
    ELSE IF /\ startsWith(key, K_customer_)
            /\ ~includes(key, K_SUBDOMAIN)
            /\ key # K_customer_state
    THEN "module"
    ELSE "none"

\* the part of the key before its last "_mysql_"
mysqlServiceLast(key) ==
    LET parts == split(key, K_MYSQL)
    IN  join(SubSeq(parts, 1, Len(parts) - 1), K_MYSQL)

\* key.split("_mysql_")[0]
mysqlService(key) == split(key, K_MYSQL)[1]

\* moduleService without the truncation at "_update"
moduleServiceGitOnly(key) ==
    split(replace(key, K_customer_, <<>>), K_GIT)[1]

\* key.replace("customer_", "").split("_git")[0].split("_update")[0]
moduleService(key) ==
    split(split(replace(key, K_customer_, <<>>), K_GIT)[1], K_UPDATE)[1]

\* group[service][key] = value, creating group[service] when it is missing
putGrouped(group, service, key, value) ==
    put(group, service,
        put(IF service \in DOMAIN group THEN group[service] ELSE EmptyObj,
            key, value))

\* the body of Object.entries(vars).forEach for one entry
categorizeEntry(key, value, acc) ==
    LET rule == ruleOf(key)
    IN  CASE rule = "domain" -> [acc EXCEPT !.domain = put(@, key, value)]
          [] rule = "backup" -> [acc EXCEPT !.backup = put(@, key, value)]
          [] rule = "test"   -> [acc EXCEPT !.test = put(@, key, value)]
          [] rule = "mysql"  ->
                [acc EXCEPT !.database =
                    putGrouped(@, mysqlService(key), key, value)]
          [] rule = "module" ->
                IF inModulesList(moduleService(key))
                THEN [acc EXCEPT !.modules =
                        putGrouped(@, moduleService(key), key, value)]
                ELSE acc
          [] OTHER -> acc

RECURSIVE categorizeEntries(_, _, _)
categorizeEntries(obj, keys, acc) ==
    IF keys = {}
    THEN acc
    ELSE LET k == CHOOSE k \in keys : TRUE
         IN  categorizeEntries(obj, keys \ {k}, categorizeEntry(k, obj[k], acc))

categorizeVars(obj) ==
    categorizeEntries(obj, DOMAIN obj,
        [modules |-> EmptyObj, domain |-> EmptyObj, backup |-> EmptyObj,
         test |-> EmptyObj, database |-> EmptyObj])


(***************************************************************************)
(* The inventory document: { all: { vars, hosts: { id: { vars } } } }.     *)
(* A member that is missing or null is "not had"; one record shape serves  *)
(* every document.                                                         *)
(***************************************************************************)

\* the customer ids of the model
Customers == {"c1", "c2"}

\* all.hosts[id] is missing, is null, or is an object with or without vars
AbsentHost == [kind |-> "absent", hasVars |-> FALSE, vars |-> EmptyObj]
NullHost   == [kind |-> "null",   hasVars |-> FALSE, vars |-> EmptyObj]
BareHost   == [kind |-> "object", hasVars |-> FALSE, vars |-> EmptyObj]
HostWith(v) == [kind |-> "object", hasVars |-> TRUE, vars |-> v]

\* a document without the all group: {} and also { status: "error", ... }
NoAllDoc ==
    [hasAll |-> FALSE, hasVars |-> FALSE, vars |-> EmptyObj,
     hasHosts |-> FALSE, hosts |-> [c \in Customers |-> AbsentHost]]

\* { all: { vars?, hosts? } }
AllDoc(hasVars, v, hasHosts, hosts) ==
    [hasAll |-> TRUE, hasVars |-> hasVars, vars |-> v,
     hasHosts |-> hasHosts, hosts |-> hosts]

\* nothing returned / resolved yet
NoRead == [some |-> FALSE, customer |-> "", vars |-> EmptyObj]
NoLoad == [some |-> FALSE, data |-> NoAllDoc, found |-> NoAllDoc, rejectedSince |-> FALSE]
NoSave == [some |-> FALSE, customer |-> "", vars |-> EmptyObj]
NoPost == [some |-> FALSE, customer |-> "", vars |-> EmptyObj,
           loadedFor |-> "", loaded |-> EmptyObj, edited |-> FALSE]

(***************************************************************************)
(* getCustomerVars.                                                        *)
(***************************************************************************)

\* getCustomerVars with the two spreads in the opposite order
getCustomerVarsDefaultsWin(inv, customer) ==
    IF \/ ~inv.hasAll
       \/ ~inv.hasHosts
       \/ inv.hosts[customer].kind # "object"
    THEN EmptyObj
    ELSE LET customerVars == IF inv.hosts[customer].hasVars
                             THEN inv.hosts[customer].vars ELSE EmptyObj
             defaultVars  == IF inv.hasVars THEN inv.vars ELSE EmptyObj
         IN  spread(customerVars, defaultVars)

\* getCustomerVars that answers {} for a host without vars of its own
getCustomerVarsNeedsHostVars(inv, customer) ==
    IF \/ ~inv.hasAll
       \/ ~inv.hasHosts
       \/ inv.hosts[customer].kind # "object"
       \/ ~inv.hosts[customer].hasVars
    THEN EmptyObj
    ELSE spread(IF inv.hasVars THEN inv.vars ELSE EmptyObj,
                inv.hosts[customer].vars)

\* getCustomerVars(customer) over the cache inv
getCustomerVars(inv, customer) ==
    IF \/ ~inv.hasAll
       \/ ~inv.hasHosts
       \/ inv.hosts[customer].kind # "object"
    THEN EmptyObj
    ELSE LET customerVars == IF inv.hosts[customer].hasVars
                             THEN inv.hosts[customer].vars ELSE EmptyObj
             defaultVars  == IF inv.hasVars THEN inv.vars ELSE EmptyObj
         IN  spread(defaultVars, customerVars)


(***************************************************************************)
(* renderInputs / renderInput: the inputs generated for the entries of one *)
(* bucket. A rendering is [ok, inputs]; ok is FALSE when the code throws   *)
(* (value.split is not a function).                                        *)
(***************************************************************************)
K_PASSWORD ==
    <<"p","a","s","s","w","o","r","d">>
K_SECRET ==
    <<"s","e","c","r","e","t">>
K_EMAIL ==
    <<"e","m","a","i","l">>

DecimalDigits == <<"0", "1", "2", "3", "4", "5", "6", "7", "8", "9">>

\* String(n) for a natural number n
RECURSIVE numToStr(_)
numToStr(n) ==
    IF n < 10
    THEN <<DecimalDigits[n + 1]>>
    ELSE numToStr(n \div 10) \o <<DecimalDigits[(n % 10) + 1]>>

\* `${value}`
toStr(value) ==
    CASE value.type = "boolean" ->
            IF value.b THEN <<"t","r","u","e">> ELSE <<"f","a","l","s","e">>
      [] value.type = "number"  -> numToStr(value.n)
      [] OTHER                  -> value.s

\* the type attribute renderInput chooses for a text field
inputTypeOf(key, value) ==
    IF key = K_customer_domain THEN "text"
    ELSE IF key = K_customer_url THEN "text"
    ELSE IF includes(key, K_PASSWORD) \/ includes(key, K_SECRET) THEN "password"
    ELSE IF includes(key, K_EMAIL) THEN "email"
    ELSE IF value.type = "number" THEN "number"
    ELSE "text"

Rendered(inputs) == [ok |-> TRUE, inputs |-> inputs]
Thrown(inputs) == [ok |-> FALSE, inputs |-> inputs]

\* renderInput(key, value)
renderInput(key, value) ==
    IF value.type = "boolean"
    THEN Rendered(<<keyInput(attrValue(key), "checkbox", <<"o","n">>, value.b)>>)
    ELSE IF includes(key, K_CRON)
    THEN IF value.type = "string"
         THEN Rendered(renderCron(key, value.s))
         ELSE Thrown(<<>>)
    ELSE Rendered(<<keyInput(attrValue(key), inputTypeOf(key, value),
                            attrValue(toStr(value)), FALSE)>>)

\* the elements of a finite set in some fixed order (the order of
\* Object.entries, which no result below depends on)
RECURSIVE seqOf(_)
seqOf(S) ==
    IF S = {} THEN <<>>
    ELSE LET x == CHOOSE x \in S : TRUE IN <<x>> \o seqOf(S \ {x})

\* allItems.map(renderInput).join(""), left to right
RECURSIVE renderEach(_, _, _)
renderEach(items, keys, acc) ==
    IF keys = <<>>
    THEN Rendered(acc)
    ELSE LET r == renderInput(Head(keys), items[Head(keys)])
         IN  IF r.ok
             THEN renderEach(items, Tail(keys), acc \o r.inputs)
             ELSE Thrown(<<>>)

\* renderInputs(items): booleans first, then texts, then every cron_ key
renderInputs(items) ==
    LET entries == seqOf(DOMAIN items)
        isBoolean(k) == items[k].type = "boolean"
        isCron(k)    == includes(k, K_CRON)
        isText(k)    == items[k].type # "boolean" /\ ~includes(k, K_CRON)
        allItems == SelectSeq(entries, isBoolean)
                    \o SelectSeq(entries, isText)
                    \o SelectSeq(entries, isCron)
    IN  renderEach(items, allItems, <<>>)

\* the grouped branch of renderTab: container.innerHTML += card, per group
RECURSIVE renderGroups(_, _, _)
renderGroups(data, groups, acc) ==
    IF groups = <<>>
    THEN Rendered(acc)
    ELSE LET r == renderInputs(data[Head(groups)])
         IN  IF r.ok
             THEN renderGroups(data, Tail(groups), acc \o r.inputs)
             ELSE Thrown(acc)

\* renderTab(tabId, data, grouped): the inputs the container holds after it
renderTab(data, grouped) ==
    IF DOMAIN data = {}
    THEN Rendered(<<>>)
    ELSE IF grouped
    THEN renderGroups(data, seqOf(DOMAIN data), <<>>)
    ELSE renderInputs(data)

\* the tab containers, in the order renderCustomerTabs renders them and
\* AnsibleUI.saveCustomerVars collects them
TabOrder == <<"modules", "domain", "backup", "test", "database">>

isGroupedTab(tabId) == tabId \in {"modules", "database"}

\* the five renderTab calls of renderCustomerTabs; a throw ends them
RECURSIVE renderTabsFrom(_, _, _)
renderTabsFrom(dom, categorized, i) ==
    IF i > Len(TabOrder)
    THEN dom
    ELSE LET tabId == TabOrder[i]
             r == renderTab(categorized[tabId], isGroupedTab(tabId))
         IN  IF r.ok
             THEN renderTabsFrom([dom EXCEPT ![tabId] = r.inputs], categorized, i + 1)
             ELSE [dom EXCEPT ![tabId] = r.inputs]

\* the then-callback of renderCustomerTabs on data.vars
renderCustomerTabs(dom, dataVars) ==
    renderTabsFrom(dom, categorizeVars(dataVars), 1)

\* allData of AnsibleUI.saveCustomerVars: Object.assign over the five tabs
RECURSIVE collectTabsFrom(_, _, _)
collectTabsFrom(dom, i, allData) ==
    IF i > Len(TabOrder)
    THEN allData
    ELSE collectTabsFrom(dom, i + 1,
                         spread(allData, collectFormData(dom[TabOrder[i]])))

collectAllTabs(dom) == collectTabsFrom(dom, 1, EmptyObj)


(***************************************************************************)
(* SpecCron: the cron field codec on bounded inputs.                       *)
(*   value    --RenderCronField--> rendered --(EditCronInput)*-->          *)
(*   rendered --CollectCronForm--> collected --ReloadCronField--> reloaded *)
(* and, for the encode-first direction, a hand-made form of five           *)
(* sub-inputs (one per part the index map of collectFormData knows):       *)
(*   form     --CollectCronForm--> collected --ReloadCronField--> reloaded *)
(***************************************************************************)

\* the number of tokens of the longest schedule string tried
MaxTokens == 5

\* the most sub-input edits tried on one rendered field
MaxEdits == 1

\* the tokens schedule strings are made of
CronTokens == { <<"*", "/", "5">>, <<"2">> }

\* the separators between two tokens
CronSeps == { SPACE, <<" ", " ">>, <<"\t">> }

\* what the user may type into a sub-input
CronTyped == { <<>>, <<"7">> }

\* the names of the sub-inputs, in the order of the index map
CronParts == <<"minute", "hour", "day", "month", "weekday">>

\* the variable whose schedule is edited: customer_backup_cron_volumes
CronName ==
    <<"c","u","s","t","o","m","e","r","_","b","a","c","k","u","p","_",
      "c","r","o","n","_","v","o","l","u","m","e","s">>

\* toks[1] seps[1] toks[2] ... seps[n-1] toks[n]
RECURSIVE interleave(_, _)
interleave(toks, seps) ==
    IF Len(toks) = 0 THEN <<>>
    ELSE IF Len(toks) = 1 THEN toks[1]
    ELSE toks[1] \o seps[1] \o interleave(Tail(toks), Tail(seps))

CronValues ==
    UNION { { interleave(toks, seps) :
                toks \in [1..n -> CronTokens],
                seps \in [1..(IF n = 0 THEN 0 ELSE n - 1) -> CronSeps] } :
            n \in 0..MaxTokens }

\* a form with one sub-input per part, holding the five fields f
cronForm(f) == [i \in 1..5 |-> cronInput(CronName, CronParts[i], f[i])]

\* the codec is not exercised
CronIdle ==
    /\ cronPc = "off"
    /\ cronValue = <<>>
    /\ cronDom = <<>>
    /\ cronEdited = 0
    /\ cronFields = <<>>
    /\ cronOut = <<>>

\* the categorizer is not exercised
CatIdle ==
    /\ catPc = "off"
    /\ catVars = EmptyObj
    /\ catOut = EmptyObj

\* the inventory client is not exercised
InvIdle ==
    /\ srvInv = NoAllDoc
    /\ inventoryData = NoAllDoc
    /\ loads = EmptyBag
    /\ saves = EmptyBag
    /\ loadCalls = 0
    /\ saveCalls = 0
    /\ lastRead = NoRead
    /\ lastLoaded = NoLoad
    /\ lastSaved = NoSave

\* the page as loaded: no customer selected, empty tab containers
TabsStart ==
    /\ customerSelect = ""
    /\ custReqs = EmptyBag
    /\ tabsDom = [tabId \in {"modules", "domain", "backup", "test", "database"} |-> <<>>]
    /\ tabsLoaded = NoRead
    /\ tabsDirty = FALSE
    /\ tabEdits = 0
    /\ selects = 0
    /\ customerStateText = "---"
    /\ currentCustomer = ""
    /\ uiSaves = <<>>
    /\ saveClicks = 0
    /\ lastPost = NoPost

\* the tabs are not exercised
TabsIdle ==
    /\ srvCust = [c \in Customers |-> EmptyObj]
    /\ TabsStart

\* a response body without the fields the clients read, and no promise
\* settled yet
NoBody == [status |-> "none", message |-> "undefined", jobs |-> "undefined"]
NoSettled == [some |-> FALSE, op |-> "", body |-> NoBody, failed |-> FALSE,
              outcome |-> "", error |-> "", polls |-> 0]

\* no client operation is called
OpsIdle ==
    /\ opsInFlight = EmptyBag
    /\ opCalls = 0
    /\ currentJobs = "empty"
    /\ lastSettled = NoSettled

\* the containers of the model, and a list without any of them
Containers == {"k1", "k2"}
NoContainers == [k \in Containers |-> "gone"]

\* no batch confirmed yet
NoBatch == [kind |-> "none", sent |-> {}, selectionAtConfirm |-> {}, total |-> 0,
            inFlight |-> {}, completed |-> 0, results |-> {}, shown |-> 0,
            refreshes |-> 0]

\* the statistics fields as the page is loaded
StatsBlank == [f \in {"total", "running", "stopped", "paused", "restarting", "images"}
                 |-> "blank"]

\* the containers section as the page is loaded, before it is initialised
CtrStart ==
    /\ currentContainers = NoContainers
    /\ ctrInit = [pc |-> "idle", statsFailed |-> FALSE, listeners |-> FALSE]
    /\ ctrReqs = EmptyBag
    /\ ctrRows = {}
    /\ ctrChecked = {}
    /\ ctrSelectAll = FALSE
    /\ ctrFilter = ""
    /\ selectedContainers = {}
    /\ statsDom = StatsBlank
    /\ batch = NoBatch
    /\ ctrUser = [toggles |-> 0, redisplays |-> 0, refreshes |-> 0, batches |-> 0]

\* the containers panel is not exercised
CtrIdle ==
    /\ srvCtr = NoContainers
    /\ CtrStart

\* no run requested yet
NoRun == [some |-> FALSE, customer |-> "", vars |-> EmptyObj, extraVars |-> EmptyObj]

\* the run button is not used
RunIdle ==
    /\ runReqs = EmptyBag
    /\ runClicks = 0
    /\ runToast = ""
    /\ lastRun = NoRun

\* the networks of the model
NetIds == {<<"a", "b">>, <<"b", "c">>}

\* no remove request sent yet
NoRemove == [some |-> FALSE, id |-> <<>>, containers |-> 0, path |-> ""]

\* the networks panel before initNetworksSection, all but the server
NetStart ==
    /\ netPc = "start"
    /\ currentNetworks = <<>>
    /\ netReqs = EmptyBag
    /\ networkIdToRemove = <<>>
    /\ netClicks = 0
    /\ totalNetworks = ""
    /\ netToast = ""
    /\ lastRemove = NoRemove

\* the networks panel is not used
NetIdle ==
    /\ srvNets = [i \in NetIds |-> [present |-> FALSE, containers |-> 0]]
    /\ NetStart

\* a .content-section element: its id is <section>Section, kind tells the
\* page's own home section, fetched content and the error panel apart, display
\* is its inline style.display ("" while none was set)
Element(section, kind, display) ==
    [section |-> section, kind |-> kind, display |-> display]

\* no call of the section loader yet
NoSecCall == [op |-> "", section |-> "", fetched |-> FALSE, hadError |-> FALSE,
              loadedBefore |-> {}, contentBefore |-> <<>>, currentBefore |-> ""]

\* the page as it is served: the home section shown, nothing else loaded
SecIdle ==
    /\ currentSection = "home"
    /\ loadedSections = {"home"}
    /\ mainContent = << Element("home", "home", "block") >>
    /\ secFetches = EmptyBag
    /\ menuTitle = ""
    /\ secCalls = 0
    /\ secUsed = {}
    /\ secLast = NoSecCall

\* no loadCronJobs settled yet
NoJobsLoad == [some |-> FALSE, ok |-> FALSE, jobs |-> "empty", endpoint |-> ""]

\* the cron panel before any loadCronJobs
JobsIdle ==
    /\ getCurrentJobsFn = "module"
    /\ jobReqs = EmptyBag
    /\ cronJobsTable = "empty"
    /\ jobLoads = 0
    /\ lastJobsLoad = NoJobsLoad

\* the parts added after the customer tabs are not exercised
ExtIdle ==
    /\ OpsIdle
    /\ CtrIdle
    /\ RunIdle
    /\ NetIdle
    /\ SecIdle
    /\ JobsIdle

InitCron ==
    /\ ExtIdle
    /\ CatIdle
    /\ InvIdle
    /\ TabsIdle
    /\ cronDom \in {<<>>} \cup { cronForm(f) : f \in [1..5 -> CronTokens] }
    /\ cronPc = IF cronDom = <<>> THEN "value" ELSE "form"
    /\ cronFields = IF cronDom = <<>> THEN <<>>
                    ELSE [i \in 1..5 |-> cronDom[i].value]
    /\ cronValue \in IF cronDom = <<>> THEN CronValues ELSE {<<>>}
    /\ cronEdited = 0
    /\ cronOut = <<>>

\* renderInput reaches renderCron for a string value of a cron_ key
RenderCronField ==
    /\ cronPc = "value"
    /\ cronDom' = renderCron(CronName, cronValue)
    /\ cronPc' = "rendered"
    /\ UNCHANGED <<cronValue, cronEdited, cronFields, cronOut, notCron>>

\* the user types into one sub-input
EditCronInput ==
    /\ cronPc = "rendered"
    /\ cronEdited < MaxEdits
    /\ \E i \in 1..Len(cronDom), v \in CronTyped :
          /\ cronDom[i].value # v
          /\ cronDom' = [cronDom EXCEPT ![i].value = v]
    /\ cronEdited' = cronEdited + 1
    /\ UNCHANGED <<cronPc, cronValue, cronFields, cronOut, notCron>>

\* collectFormData over the container; the schedule is formData[CronName]
CollectCronForm ==
    /\ cronPc \in {"rendered", "form"}
    /\ cronOut' = collectFormData(cronDom)[CronName].s
    /\ cronPc' = "collected"
    /\ UNCHANGED <<cronValue, cronDom, cronEdited, cronFields, notCron>>

\* the collected schedule is rendered again (the tab is redrawn after a save)
ReloadCronField ==
    /\ cronPc = "collected"
    /\ cronValue' = cronOut
    /\ cronDom' = renderCron(CronName, cronOut)
    /\ cronPc' = "reloaded"
    /\ UNCHANGED <<cronEdited, cronFields, cronOut, notCron>>

NextCron ==
    \/ RenderCronField
    \/ EditCronInput
    \/ CollectCronForm
    \/ ReloadCronField

SpecCron == InitCron /\ [][NextCron]_vars

(***************************************************************************)
(* SpecCat: categorizeVars on bounded inputs. The keys tried are the       *)
(* concatenations of up to MaxKeyPieces pieces of the naming convention.   *)
(***************************************************************************)

\* the most pieces a key is made of
MaxKeyPieces == 3

\* the most entries of a vars object handed to categorizeVars
MaxCatVars == 2

KeyPieces ==
    { <<"c","u","s","t","o","m","e","r","_">>,
      <<"d","o","m","a","i","n">>,
      <<"u","r","l">>,
      <<"s","u","b","d","o","m","a","i","n","_">>,
      <<"b","a","c","k","u","p","_">>,
      <<"t","e","s","t","_">>,
      <<"_","m","y","s","q","l","_">>,
      <<"p","o","r","t","a","l">>,
      <<"_","f","r","o","n","t","e","n","d">>,
      <<"l","m","s">>,
      <<"_","g","i","t">>,
      <<"_","u","p","d","a","t","e">>,
      <<"s","t","a","t","e">> }

RECURSIVE concat(_)
concat(ps) == IF Len(ps) = 0 THEN <<>> ELSE ps[1] \o concat(Tail(ps))

CatKeys ==
    UNION { { concat(ps) : ps \in [1..n -> KeyPieces] } : n \in 0..MaxKeyPieces }

\* the keys added as a second entry: customer_domain, customer_backup_enabled
CatMoreKeys ==
    { K_customer_domain,
      K_customer_backup_ \o <<"e","n","a","b","l","e","d">> }

CatValues == { Bool(TRUE), Text(<<"x">>) }

\* the keys of the inventory as labelled: the update flag, the branches and
\* the tags of each module, and lms_mysql_db_name
CatRealKeys ==
    { K_customer_ \o modulesList[i] \o sfx :
        i \in DOMAIN modulesList,
        sfx \in { K_UPDATE,
                  K_GIT \o <<"_","b","r","a","n","c","h","e","s">>,
                  K_GIT \o <<"_","t","a","g","s">> } }
    \cup { M_lms \o K_MYSQL \o <<"d","b","_","n","a","m","e">> }

InitCat ==
    /\ ExtIdle
    /\ CronIdle
    /\ InvIdle
    /\ TabsIdle
    /\ catPc = "input"
    /\ \E k \in CatKeys \cup CatRealKeys, v \in CatValues :
          catVars = put(EmptyObj, k, v)
    /\ catOut = EmptyObj

\* the caller adds one more entry to the object
AddCatVar ==
    /\ catPc = "input"
    /\ Cardinality(DOMAIN catVars) < MaxCatVars
    /\ \E k \in CatMoreKeys \ DOMAIN catVars :
          catVars' = put(catVars, k, Bool(TRUE))
    /\ UNCHANGED <<catPc, catOut, notCat>>

\* categorizeVars(vars)
Categorize ==
    /\ catPc = "input"
    /\ catOut' = categorizeVars(catVars)
    /\ catPc' = "done"
    /\ UNCHANGED <<catVars, notCat>>

NextCat ==
    \/ AddCatVar
    \/ Categorize

SpecCat == InitCat /\ [][NextCat]_vars


(***************************************************************************)
(* SpecInv: the inventory client against the server of record.             *)
(* Every request is a call (the fetch is sent), the server's answer, and   *)
(* the continuation that resolves or rejects the call's promise; calls in  *)
(* flight are answered and continued in any order.                         *)
(***************************************************************************)

\* the bag of calls in flight with call r replaced by call s
replaced(calls, r, s) == (calls (-) SetToBag({r})) (+) SetToBag({s})

\* the most loadInventory calls of a run
MaxLoads == 3

\* the most saveCustomerVars calls of a run
MaxSaves == 1

KA == <<"a">>
KB == <<"b">>
KC == <<"c">>

\* { a: 1, b: 2 }, { b: 3, c: 4 }, { a: 9 }, { b: 5 }
VarsAB == put(put(EmptyObj, KA, Num(1)), KB, Num(2))
VarsBC == put(put(EmptyObj, KB, Num(3)), KC, Num(4))
VarsA9 == put(EmptyObj, KA, Num(9))
VarsB5 == put(EmptyObj, KB, Num(5))

\* the inventory documents the server starts with
ServerDocs ==
    {NoAllDoc} \cup
    { AllDoc(d.has, d.vars, hasHosts, [c \in Customers |-> IF c = "c1" THEN h1 ELSE h2]) :
        d \in { [has |-> FALSE, vars |-> EmptyObj], [has |-> TRUE, vars |-> VarsAB] },
        hasHosts \in {TRUE},
        h1 \in {AbsentHost, NullHost, BareHost, HostWith(VarsBC)},
        h2 \in {HostWith(VarsA9)} }
    \cup
    { AllDoc(TRUE, VarsAB, FALSE, [c \in Customers |-> AbsentHost]) }

\* the vars mappings passed to saveCustomerVars
SaveChoices == { VarsB5 }

InitInv ==
    /\ ExtIdle
    /\ CronIdle
    /\ CatIdle
    /\ TabsIdle
    /\ srvInv \in ServerDocs
    /\ inventoryData = NoAllDoc
    /\ loads = EmptyBag
    /\ saves = EmptyBag
    /\ loadCalls = 0
    /\ saveCalls = 0
    /\ lastRead = NoRead
    /\ lastLoaded = NoLoad
    /\ lastSaved = NoSave

\* inventoryData = data, with Object.assign(inventoryData, data) in its place:
\* a document without the all group leaves the cached all group behind
cacheAfterLoadAssign(old, data) == IF data.hasAll THEN data ELSE old

\* inventoryData = data
cacheAfterLoad(old, data) == data

\* loadInventory(): fetch('/api/inventory') is sent
LoadInventory ==
    /\ loadCalls < MaxLoads
    /\ loadCalls' = loadCalls + 1
    /\ loads' = loads (+) SetToBag({[stage |-> "sent", data |-> NoAllDoc]})
    /\ UNCHANGED <<srvInv, inventoryData, saves, saveCalls, lastRead, lastLoaded,
                   lastSaved, notInv>>

\* the server answers GET /api/inventory with its document, with a JSON
\* error object (no all group), or the transport / the JSON parse fails
ServeInventory ==
    \E r \in BagToSet(loads) :
        /\ r.stage = "sent"
        /\ \/ \E d \in {srvInv, NoAllDoc} :
                 loads' = replaced(loads, r, [stage |-> "answered", data |-> d])
           \/ loads' = replaced(loads, r, [r EXCEPT !.stage = "failed"])
        /\ UNCHANGED <<srvInv, inventoryData, saves, loadCalls, saveCalls, lastRead,
                       lastLoaded, lastSaved, notInv>>

\* .then(data => { inventoryData = data; resolve(data); })
LoadResolve ==
    \E r \in BagToSet(loads) :
        /\ r.stage = "answered"
        /\ inventoryData' = cacheAfterLoad(inventoryData, r.data)
        /\ lastLoaded' = [some |-> TRUE, data |-> r.data, found |-> inventoryData,
                          rejectedSince |-> FALSE]
        /\ lastRead' = NoRead
        /\ loads' = loads (-) SetToBag({r})
        /\ UNCHANGED <<srvInv, saves, loadCalls, saveCalls, lastSaved, notInv>>

\* .catch(error => { reject(error); })
LoadReject ==
    \E r \in BagToSet(loads) :
        /\ r.stage = "failed"
        /\ loads' = loads (-) SetToBag({r})
        /\ lastLoaded' = [lastLoaded EXCEPT !.rejectedSince = TRUE]
        /\ UNCHANGED <<srvInv, inventoryData, saves, loadCalls, saveCalls, lastRead,
                       lastSaved, notInv>>

\* saveCustomerVars(customer, vars): the POST to /api/inventory/save is sent
SaveCustomerVars ==
    /\ saveCalls < MaxSaves
    /\ saveCalls' = saveCalls + 1
    /\ \E c \in Customers, v \in SaveChoices :
          saves' = saves (+) SetToBag({[stage |-> "sent", customer |-> c, vars |-> v]})
    /\ UNCHANGED <<srvInv, inventoryData, loads, loadCalls, lastRead, lastLoaded,
                   lastSaved, notInv>>

\* the server replaces the customer's vars and answers success, or answers
\* an error (unknown customer, rejected payload), or the transport fails
ServeSave ==
    \E r \in BagToSet(saves) :
        /\ r.stage = "sent"
        /\ \/ /\ srvInv.hasAll /\ srvInv.hasHosts
              /\ srvInv.hosts[r.customer].kind # "absent"
              /\ srvInv' = [srvInv EXCEPT !.hosts[r.customer] = HostWith(r.vars)]
              /\ saves' = replaced(saves, r, [r EXCEPT !.stage = "success"])
           \/ /\ saves' = replaced(saves, r, [r EXCEPT !.stage = "error"])
              /\ UNCHANGED srvInv
        /\ UNCHANGED <<inventoryData, loads, loadCalls, saveCalls, lastRead,
                       lastLoaded, lastSaved, notInv>>

\* data.status === 'success': resolve(data)
SaveResolve ==
    \E r \in BagToSet(saves) :
        /\ r.stage = "success"
        /\ saves' = saves (-) SetToBag({r})
        /\ lastSaved' = [some |-> TRUE, customer |-> r.customer, vars |-> r.vars]
        /\ lastRead' = NoRead
        /\ UNCHANGED <<srvInv, inventoryData, loads, loadCalls, saveCalls,
                       lastLoaded, notInv>>

\* any other status, a transport or a JSON failure: reject(...)
SaveReject ==
    \E r \in BagToSet(saves) :
        /\ r.stage = "error"
        /\ saves' = saves (-) SetToBag({r})
        /\ UNCHANGED <<srvInv, inventoryData, loads, loadCalls, saveCalls, lastRead,
                       lastLoaded, lastSaved, notInv>>

\* a caller (AnsibleUI.runPlaybook) calls getCustomerVars(customer)
GetCustomerVars ==
    /\ \E c \in Customers :
          lastRead' = [some |-> TRUE, customer |-> c,
                       vars |-> getCustomerVars(inventoryData, c)]
    /\ UNCHANGED <<srvInv, inventoryData, loads, saves, loadCalls, saveCalls,
                   lastLoaded, lastSaved, notInv>>

NextInv ==
    \/ LoadInventory
    \/ ServeInventory
    \/ LoadResolve
    \/ LoadReject
    \/ SaveCustomerVars
    \/ ServeSave
    \/ SaveResolve
    \/ SaveReject
    \/ GetCustomerVars

SpecInv == InitInv /\ [][NextInv]_vars


(***************************************************************************)
(* SpecTabs: the customer configuration tabs of AnsibleUI. A change of the *)
(* select starts two getCustomer calls (updateCustomerState and            *)
(* renderCustomerTabs); the server answers them and their continuations    *)
(* run in any order; the save button collects the five tabs and posts.     *)
(***************************************************************************)

\* the most change events of the customer select in a run
MaxSelects == 2

\* the most edits of tab inputs in a run
MaxTabEdits == 1

\* the most clicks on the save button in a run
MaxUiSaves == 1

K_customer_lms_update ==
    <<"c","u","s","t","o","m","e","r","_","l","m","s","_","u","p","d","a","t","e">>
K_customer_backup_keep ==
    <<"c","u","s","t","o","m","e","r","_","b","a","c","k","u","p","_","k","e","e","p">>
K_customer_backup_cron_keep ==
    <<"c","u","s","t","o","m","e","r","_","b","a","c","k","u","p","_","c","r","o","n","_","k","e","e","p">>
K_lms_mysql_user ==
    <<"l","m","s","_","m","y","s","q","l","_","u","s","e","r">>

UP == <<"u", "p">>

\* a customer with a key of every kind
VarsFull ==
    [k \in {K_customer_state, K_customer_domain, K_customer_lms_update,
            CronName, K_customer_backup_keep, K_lms_mysql_user} |->
        CASE k = K_customer_state       -> Text(UP)
          [] k = K_customer_domain      -> Text(<<"x">>)
          [] k = K_customer_lms_update  -> Bool(TRUE)
          [] k = CronName               -> Text(<<"2"," ","2"," ","2"," ","2"," ","2">>)
          [] k = K_customer_backup_keep -> Num(7)
          [] k = K_lms_mysql_user       -> Text(<<"u">>)]

\* a customer with two categorized keys only
VarsPlain ==
    [k \in {K_customer_domain, K_customer_lms_update} |->
        IF k = K_customer_domain THEN Text(<<"y">>) ELSE Bool(FALSE)]

\* a customer whose cron_ key holds a number
VarsNumberCron ==
    [k \in {K_customer_domain, K_customer_backup_cron_keep, K_lms_mysql_user} |->
        CASE k = K_customer_domain           -> Text(<<"x">>)
          [] k = K_customer_backup_cron_keep -> Num(7)
          [] k = K_lms_mysql_user            -> Text(<<"u">>)]

\* what the user may type into a text input of a tab
TabTyped == { <<"z">> }

\* a list of calls in flight without its i-th call, which has completed
without(calls, i) == SubSeq(calls, 1, i - 1) \o SubSeq(calls, i + 1, Len(calls))

\* getCustomer(customer) as just called by updateCustomerState ("state") or
\* by renderCustomerTabs ("tabs")
getCustomerCall(purpose, customer) ==
    [purpose |-> purpose, customer |-> customer, stage |-> "sent", vars |-> EmptyObj]

InitTabs ==
    /\ ExtIdle
    /\ CronIdle
    /\ CatIdle
    /\ InvIdle
    /\ srvCust \in { [c \in Customers |-> IF c = "c1" THEN v1 ELSE VarsPlain] :
                       v1 \in {VarsFull, VarsNumberCron} }
    /\ TabsStart

\* the change listener of #customerSelect:
\* updateCustomerState(...) and renderCustomerTabs()
SelectCustomer ==
    /\ selects < MaxSelects
    /\ \E c \in Customers \cup {""} :
          /\ c # customerSelect
          /\ customerSelect' = c
          /\ IF c = ""
             THEN /\ customerStateText' = "---"
                  /\ UNCHANGED custReqs
             ELSE /\ custReqs' = custReqs (+) SetToBag({getCustomerCall("state", c)})
                                            (+) SetToBag({getCustomerCall("tabs", c)})
                  /\ UNCHANGED customerStateText
    /\ selects' = selects + 1
    /\ UNCHANGED <<srvCust, tabsDom, tabsLoaded, tabsDirty, tabEdits,
                   currentCustomer, uiSaves, saveClicks, lastPost, notTabs>>

\* the server answers GET /api/inventory/customer/{id} with
\* { status: "success", vars }, or the call fails (error status, transport)
ServeCustomer ==
    \E r \in BagToSet(custReqs) :
        /\ r.stage = "sent"
        /\ \/ custReqs' = replaced(custReqs, r,
                               [r EXCEPT !.stage = "success",
                                         !.vars = srvCust[r.customer]])
           \/ custReqs' = replaced(custReqs, r, [r EXCEPT !.stage = "failed"])
        /\ UNCHANGED <<srvCust, customerSelect, tabsDom, tabsLoaded, tabsDirty,
                       tabEdits, selects, customerStateText, currentCustomer,
                       uiSaves, saveClicks, lastPost, notTabs>>

\* renderCustomerTabs: .then(data => { categorizeVars; renderTab x 5 })
TabsResponse ==
    \E r \in BagToSet(custReqs) :
        /\ r.purpose = "tabs"
        /\ r.stage = "success"
        /\ tabsDom' = renderCustomerTabs(tabsDom, r.vars)
        /\ tabsLoaded' = [some |-> TRUE, customer |-> r.customer, vars |-> r.vars]
        /\ tabsDirty' = FALSE
        /\ custReqs' = custReqs (-) SetToBag({r})
        /\ UNCHANGED <<srvCust, customerSelect, tabEdits, selects,
                       customerStateText, currentCustomer, uiSaves, saveClicks, lastPost, notTabs>>

\* updateCustomerState: .then(data => { stateText...; currentCustomer = customer })
StateResponse ==
    \E r \in BagToSet(custReqs) :
        /\ r.purpose = "state"
        /\ r.stage = "success"
        /\ customerStateText' =
              IF /\ K_customer_state \in DOMAIN r.vars
                 /\ r.vars[K_customer_state] = Text(UP)
              THEN "active" ELSE "inactive"
        /\ currentCustomer' = r.customer
        /\ custReqs' = custReqs (-) SetToBag({r})
        /\ UNCHANGED <<srvCust, customerSelect, tabsDom, tabsLoaded, tabsDirty,
                       tabEdits, selects, uiSaves, saveClicks, lastPost, notTabs>>

\* the .catch of either call: a toast, or the state text "error"
CustomerReject ==
    \E r \in BagToSet(custReqs) :
        /\ r.stage = "failed"
        /\ customerStateText' =
              IF r.purpose = "state" THEN "error" ELSE customerStateText
        /\ custReqs' = custReqs (-) SetToBag({r})
        /\ UNCHANGED <<srvCust, customerSelect, tabsDom, tabsLoaded, tabsDirty,
                       tabEdits, selects, currentCustomer, uiSaves, saveClicks, lastPost, notTabs>>

\* the user toggles a switch or types into a text input of a tab
EditTabInput ==
    /\ tabEdits < MaxTabEdits
    /\ \E tabId \in DOMAIN tabsDom, i \in 1..5 :
          /\ i <= Len(tabsDom[tabId])
          /\ \/ /\ tabsDom[tabId][i].type = "checkbox"
                /\ tabsDom' = [tabsDom EXCEPT ![tabId][i].checked = ~@]
             \/ /\ tabsDom[tabId][i].type # "checkbox"
                /\ \E v \in TabTyped :
                      /\ v # tabsDom[tabId][i].value
                      /\ tabsDom' = [tabsDom EXCEPT ![tabId][i].value = v]
    /\ tabsDirty' = TRUE
    /\ tabEdits' = tabEdits + 1
    /\ UNCHANGED <<srvCust, customerSelect, custReqs, tabsLoaded, selects,
                   customerStateText, currentCustomer, uiSaves, saveClicks, lastPost, notTabs>>

\* AnsibleUI.saveCustomerVars: collect the five tabs and POST them for the
\* selected customer
SaveClicked ==
    /\ saveClicks < MaxUiSaves
    /\ saveClicks' = saveClicks + 1
    /\ customerSelect # ""
    /\ LET allData == collectAllTabs(tabsDom)
       IN  /\ uiSaves' = Append(uiSaves, [stage |-> "sent",
                                          customer |-> customerSelect,
                                          vars |-> allData])
           /\ lastPost' = [some |-> TRUE, customer |-> customerSelect,
                           vars |-> allData,
                           loadedFor |-> tabsLoaded.customer,
                           loaded |-> tabsLoaded.vars,
                           edited |-> tabsDirty]
    /\ UNCHANGED <<srvCust, customerSelect, custReqs, tabsDom, tabsLoaded, tabsDirty,
                   tabEdits, selects, customerStateText, currentCustomer, notTabs>>

\* the server stores the posted mapping as the customer's vars and answers
\* success, or rejects the payload
ServeUiSave ==
    \E i \in DOMAIN uiSaves :
        /\ uiSaves[i].stage = "sent"
        /\ \/ /\ srvCust' = [srvCust EXCEPT ![uiSaves[i].customer] = uiSaves[i].vars]
              /\ uiSaves' = [uiSaves EXCEPT ![i].stage = "success"]
           \/ /\ uiSaves' = [uiSaves EXCEPT ![i].stage = "failed"]
              /\ UNCHANGED srvCust
        /\ UNCHANGED <<customerSelect, custReqs, tabsDom, tabsLoaded, tabsDirty,
                       tabEdits, selects, customerStateText, currentCustomer,
                       saveClicks, lastPost, notTabs>>

\* .then(() => { showToast(...); updateCustomerState(...) }) and the .catch
UiSaveSettled ==
    \E i \in DOMAIN uiSaves :
        /\ uiSaves[i].stage \in {"success", "failed"}
        /\ uiSaves' = without(uiSaves, i)
        /\ IF uiSaves[i].stage = "success"
           THEN IF customerSelect = ""
                THEN /\ customerStateText' = "---"
                     /\ UNCHANGED custReqs
                ELSE /\ custReqs' = custReqs (+)
                            SetToBag({getCustomerCall("state", customerSelect)})
                     /\ UNCHANGED customerStateText
           ELSE UNCHANGED <<custReqs, customerStateText>>
        /\ UNCHANGED <<srvCust, customerSelect, tabsDom, tabsLoaded, tabsDirty,
                       tabEdits, selects, currentCustomer, saveClicks, lastPost, notTabs>>

NextTabs ==
    \/ SelectCustomer
    \/ ServeCustomer
    \/ TabsResponse
    \/ StateResponse
    \/ CustomerReject
    \/ EditTabInput
    \/ SaveClicked
    \/ ServeUiSave
    \/ UiSaveSettled

SpecTabs == InitTabs /\ [][NextTabs]_vars


(***************************************************************************)
(* Properties of the cron field codec.                                     *)
(***************************************************************************)

\* the non-empty tokens of s between runs of white space
RECURSIVE wsScan(_, _, _)
wsScan(s, cur, acc) ==
    LET flushed == IF cur = <<>> THEN acc ELSE Append(acc, cur)
    IN  IF s = <<>> THEN flushed
        ELSE IF Head(s) \in WhiteSpace THEN wsScan(Tail(s), <<>>, flushed)
        ELSE wsScan(Tail(s), Append(cur, Head(s)), acc)

wsTokens(s) == wsScan(s, <<>>, <<>>)

\* s with every run of white space replaced by one space, and trimmed
normalizeWhitespace(s) == join(wsTokens(s), SPACE)

\* the named fields a container of sub-inputs shows: part name -> value
decodedFields(dom) ==
    [p \in {dom[i].cronPart : i \in DOMAIN dom} |->
        dom[CHOOSE i \in DOMAIN dom : dom[i].cronPart = p].value]

\* the five named fields holding toks, "*" where toks has no such position
namedFields(toks) ==
    [p \in {CronParts[i] : i \in 1..5} |->
        IF cronIndex(p) + 1 <= Len(toks) THEN toks[cronIndex(p) + 1] ELSE STAR]

\* C1: a schedule string of 5 whitespace-separated tokens that is decoded by
\* renderCron and collected again, unedited, by collectFormData comes back as
\* the same 5 tokens in the same order, separated by single spaces.
C1_CronRoundTrip ==
    ( /\ cronPc = "collected"
      /\ cronFields = <<>>
      /\ cronEdited = 0
      /\ Len(wsTokens(cronValue)) = 5 )
    => cronOut = normalizeWhitespace(cronValue)

\* C7: five fields encoded by collectFormData (joined in the fixed order with
\* single spaces) and decoded again by renderCron are the same five fields.
C7_CronDecodeEncodeInverse ==
    (cronPc = "reloaded" /\ cronFields # <<>>)
    => decodedFields(cronDom) = namedFields(cronFields)

\* C8: renderCron shows, for any schedule string, its whitespace-separated
\* tokens at positions 0..4 as minute, hour, day, month, weekday, and "*" for
\* every missing position.
C8_CronDecodeDefaultFill ==
    (cronPc = "rendered" /\ cronEdited = 0)
    => decodedFields(cronDom) = namedFields(wsTokens(cronValue))

(***************************************************************************)
(* Properties of categorizeVars, against the rules as the specification    *)
(* words them.                                                             *)
(***************************************************************************)

\* the fixed, closed module list of the data model
SpecModules == { M_gateway, M_portal, M_portal_frontend, M_lms, M_file }

\* the condition of rule i (1 domain, 2 backup, 3 test, 4 mysql, 5 module)
ruleCondition(i, k) ==
    CASE i = 1 -> \/ k = K_customer_domain
                  \/ k = K_customer_url
                  \/ startsWith(k, K_customer_subdomain_)
      [] i = 2 -> startsWith(k, K_customer_backup_)
      [] i = 3 -> startsWith(k, K_customer_test_)
      [] i = 4 -> includes(k, K_MYSQL)
      [] i = 5 -> /\ startsWith(k, K_customer_)
                  /\ ~includes(k, K_SUBDOMAIN)
                  /\ k # K_customer_state

RuleBucket == <<"domain", "backup", "test", "database", "modules">>

\* s cut at the earliest occurrence of either marker
truncateAtFirst(s, m1, m2) ==
    LET at == {indexOf(s, m1), indexOf(s, m2)} \ {0}
    IN  IF at = {} THEN s
        ELSE SubSeq(s, 1, (CHOOSE i \in at : \A j \in at : i <= j) - 1)

\* the candidate module name of a key that starts with customer_
candidateModule(k) ==
    truncateAtFirst(SubSeq(k, Len(K_customer_) + 1, Len(k)), K_GIT, K_UPDATE)

\* k matches one of the defined rules
matchesRule(k) ==
    \/ \E i \in 1..4 : ruleCondition(i, k)
    \/ ruleCondition(5, k) /\ candidateModule(k) \in SpecModules

\* the buckets of a categorizeVars result that hold key k
bucketsOf(out, k) ==
    { b \in {"domain", "backup", "test"} : k \in DOMAIN out[b] }
    \cup
    { b \in {"modules", "database"} :
        \E s \in DOMAIN out[b] : k \in DOMAIN out[b][s] }

allBucketsEmpty(out) ==
    \A b \in {"modules", "domain", "backup", "test", "database"} :
        DOMAIN out[b] = {}

\* C5: categorizeVars places every key in at most one of the five buckets,
\* in exactly one when the key matches one of the defined rules and in none
\* otherwise; customer_state alone leaves all five buckets empty.
C5_CategorizeTotalDisjoint ==
    catPc = "done" =>
        /\ \A k \in DOMAIN catVars :
              LET bs == bucketsOf(catOut, k)
              IN  /\ Cardinality(bs) <= 1
                  /\ matchesRule(k) => Cardinality(bs) = 1
                  /\ ~matchesRule(k) => bs = {}
        /\ DOMAIN catVars = {K_customer_state} => allBucketsEmpty(catOut)

\* a categorized object with a key of the domain rule in its one bucket and a
\* customer_ key of no listed module in none
C5_Witness ==
    /\ catPc = "done"
    /\ \E k \in DOMAIN catVars :
          /\ ruleCondition(5, k) /\ ~matchesRule(k)
          /\ bucketsOf(catOut, k) = {}
    /\ \E k \in DOMAIN catVars : bucketsOf(catOut, k) = {"domain"}

\* C6: the rules are tried in the order domain, backup, test, mysql, module
\* and the first match wins: a key lands in no bucket other than that of the
\* earliest rule whose condition it satisfies, and in that bucket when the
\* earliest rule is one of domain, backup, test, mysql.
C6_RulePrecedence ==
    catPc = "done" =>
        \A k \in DOMAIN catVars :
            LET sat == {i \in 1..5 : ruleCondition(i, k)}
            IN  sat # {} =>
                  LET first == CHOOSE i \in sat : \A j \in sat : i <= j
                  IN  /\ bucketsOf(catOut, k) \subseteq {RuleBucket[first]}
                      /\ first <= 4 => bucketsOf(catOut, k) = {RuleBucket[first]}

\* a categorized key that starts with customer_backup_ and contains _mysql_
C6_Witness ==
    /\ catPc = "done"
    /\ \E k \in DOMAIN catVars :
          /\ ruleCondition(2, k)
          /\ ruleCondition(4, k)
          /\ ruleCondition(5, k)
          /\ bucketsOf(catOut, k) = {"backup"}

\* C12: a key that reaches rule 5 is placed in modules[m], with its value,
\* exactly when m, the text after customer_ cut at the first _git or _update,
\* is one of the five modules, and is in no bucket otherwise.
C12_ModuleBucketing ==
    catPc = "done" =>
        \A k \in DOMAIN catVars :
            (ruleCondition(5, k) /\ \A i \in 1..4 : ~ruleCondition(i, k)) =>
                LET m == candidateModule(k)
                IN  IF m \in SpecModules
                    THEN /\ bucketsOf(catOut, k) = {"modules"}
                         /\ {s \in DOMAIN catOut.modules : k \in DOMAIN catOut.modules[s]}
                               = {m}
                         /\ catOut.modules[m][k] = catVars[k]
                    ELSE bucketsOf(catOut, k) = {}

\* customer_portal_frontend_update was placed in modules.portal_frontend
C12_Witness ==
    /\ catPc = "done"
    /\ LET k == K_customer_ \o M_portal_frontend \o K_UPDATE
       IN  /\ k \in DOMAIN catVars
           /\ M_portal_frontend \in DOMAIN catOut.modules
           /\ k \in DOMAIN catOut.modules[M_portal_frontend]
           /\ M_portal \notin DOMAIN catOut.modules

\* a customer_ key whose candidate module is not listed was dropped
C12_DropWitness ==
    /\ catPc = "done"
    /\ \E k \in DOMAIN catVars :
          /\ ruleCondition(5, k) /\ \A i \in 1..4 : ~ruleCondition(i, k)
          /\ startsWith(candidateModule(k), M_lms)
          /\ candidateModule(k) # M_lms
          /\ bucketsOf(catOut, k) = {}

\* the part of a key before its first _mysql_
beforeMysql(k) == SubSeq(k, 1, indexOf(k, K_MYSQL) - 1)

\* C13: a key that contains _mysql_ and matches none of the domain, backup
\* and test rules is placed in database[p], with its value, p being the part
\* of the key before the first _mysql_, and in no other bucket.
C13_DatabaseBucketing ==
    catPc = "done" =>
        \A k \in DOMAIN catVars :
            (ruleCondition(4, k) /\ \A i \in 1..3 : ~ruleCondition(i, k)) =>
                LET p == beforeMysql(k)
                IN  /\ bucketsOf(catOut, k) = {"database"}
                    /\ {s \in DOMAIN catOut.database : k \in DOMAIN catOut.database[s]}
                          = {p}
                    /\ catOut.database[p][k] = catVars[k]

\* lms_mysql_db_name was placed in database.lms
C13_Witness ==
    /\ catPc = "done"
    /\ LET k == M_lms \o K_MYSQL \o <<"d","b","_","n","a","m","e">>
       IN  /\ k \in DOMAIN catVars
           /\ DOMAIN catOut.database = {M_lms}
           /\ k \in DOMAIN catOut.database[M_lms]

\* a key with two occurrences of _mysql_ was placed under the part before
\* the first
C13_TwiceWitness ==
    /\ catPc = "done"
    /\ \E k \in DOMAIN catVars :
          /\ Len(split(k, K_MYSQL)) > 2
          /\ bucketsOf(catOut, k) = {"database"}

(***************************************************************************)
(* Properties of the inventory client.                                     *)
(***************************************************************************)

\* customer c is a host (an object entry of all.hosts) of document inv
isHost(inv, c) == inv.hasAll /\ inv.hasHosts /\ inv.hosts[c].kind = "object"

\* the default vars and the customer's own vars of a document, a missing
\* mapping read as the empty one
defaultsOf(inv) == IF inv.hasAll /\ inv.hasVars THEN inv.vars ELSE EmptyObj
ownVarsOf(inv, c) ==
    IF isHost(inv, c) /\ inv.hosts[c].hasVars THEN inv.hosts[c].vars ELSE EmptyObj

\* r is the shallow overlay of mapping d by mapping o
isOverlay(r, d, o) ==
    /\ DOMAIN r = (DOMAIN d) \cup (DOMAIN o)
    /\ \A k \in DOMAIN o : r[k] = o[k]
    /\ \A k \in (DOMAIN d) \ (DOMAIN o) : r[k] = d[k]

\* C3: a getCustomerVars(c) performed after saveCustomerVars(c, v) resolved
\* returns v[k] for every key k of v (stated for the customers that are hosts
\* of the cached inventory).
C3_SaveThenRead ==
    ( /\ lastRead.some
      /\ lastSaved.some
      /\ lastRead.customer = lastSaved.customer
      /\ isHost(inventoryData, lastRead.customer) )
    => \A k \in DOMAIN lastSaved.vars :
          /\ k \in DOMAIN lastRead.vars
          /\ lastRead.vars[k] = lastSaved.vars[k]

\* C4: for a customer that is a host of the cached inventory, getCustomerVars
\* returns the shallow overlay of all.vars by all.hosts[c].vars: the keys of
\* both and no other, the customer's value where both have the key.
C4_OverlayPrecedence ==
    (lastRead.some /\ isHost(inventoryData, lastRead.customer))
    => isOverlay(lastRead.vars,
                 defaultsOf(inventoryData),
                 ownVarsOf(inventoryData, lastRead.customer))

\* defaults { a: 1, b: 2 } and customer { b: 3, c: 4 } were read as
\* { a: 1, b: 3, c: 4 }
C4_Witness ==
    /\ lastRead.some
    /\ lastRead.customer = "c1"
    /\ isHost(inventoryData, "c1")
    /\ defaultsOf(inventoryData) = VarsAB
    /\ ownVarsOf(inventoryData, "c1") = VarsBC
    /\ lastRead.vars = put(put(put(EmptyObj, KA, Num(1)), KB, Num(3)), KC, Num(4))

\* C9: the cache is the data of the latest loadInventory that resolved (the
\* initial {} before any), whatever was cached before and whatever calls
\* were rejected since, and a getCustomerVars result is computed from that
\* data alone.
C9_CacheReplacedByLoad ==
    /\ inventoryData = lastLoaded.data
    /\ lastRead.some =>
          IF isHost(lastLoaded.data, lastRead.customer)
          THEN isOverlay(lastRead.vars,
                         defaultsOf(lastLoaded.data),
                         ownVarsOf(lastLoaded.data, lastRead.customer))
          ELSE lastRead.vars = EmptyObj

\* a load resolved with a document without the all group and replaced a
\* cached all group, later another load was rejected, and a read followed
C9_Witness ==
    /\ lastLoaded.some
    /\ lastLoaded.found.hasAll
    /\ ~lastLoaded.data.hasAll
    /\ inventoryData = lastLoaded.data
    /\ lastLoaded.rejectedSince
    /\ lastRead.some

\* a load was rejected after an earlier one had filled the cache
C9_RejectWitness ==
    /\ lastLoaded.some
    /\ lastLoaded.data.hasAll
    /\ lastLoaded.rejectedSince
    /\ inventoryData = lastLoaded.data

\* C10: getCustomerVars returns the empty mapping when the customer is not a
\* host of the cache or the cache has no all group or no all.hosts (as before
\* any loadInventory), and reads a host without vars and a missing all.vars
\* as the empty mapping.
C10_ReadNeverFails ==
    lastRead.some =>
        LET inv == inventoryData
            c   == lastRead.customer
        IN  /\ (~inv.hasAll \/ ~inv.hasHosts \/ inv.hosts[c].kind # "object")
                  => lastRead.vars = EmptyObj
            /\ ~lastLoaded.some => lastRead.vars = EmptyObj
            /\ (isHost(inv, c) /\ ~inv.hosts[c].hasVars)
                  => lastRead.vars = defaultsOf(inv)
            /\ (isHost(inv, c) /\ ~inv.hasVars)
                  => lastRead.vars = ownVarsOf(inv, c)

\* a host without vars of its own was read as the default vars { a: 1, b: 2 }
C10_Witness ==
    /\ lastRead.some
    /\ isHost(inventoryData, lastRead.customer)
    /\ ~inventoryData.hosts[lastRead.customer].hasVars
    /\ lastRead.vars = VarsAB

(***************************************************************************)
(* Properties of the customer configuration tabs.                          *)
(***************************************************************************)

\* C2: a save without edits posts every key of the vars that were loaded
\* for the customer and rendered into the tabs.
C2_SavePostsFullMapping ==
    ( /\ lastPost.some
      /\ ~lastPost.edited
      /\ lastPost.loadedFor = lastPost.customer )
    => (DOMAIN lastPost.loaded) \subseteq (DOMAIN lastPost.vars)


\* C16: whenever no getCustomer request of renderCustomerTabs is in flight,
\* the tabs show the vars loaded for the customer that is selected, and a
\* save posts to a customer only values that were loaded for that customer.
C16_TabsShowSelectedCustomer ==
    /\ ( /\ customerSelect # ""
         /\ tabsLoaded.some
         /\ \A r \in BagToSet(custReqs) : r.purpose # "tabs" )
       => tabsLoaded.customer = customerSelect
    /\ (lastPost.some /\ lastPost.vars # EmptyObj)
       => lastPost.loadedFor = lastPost.customer


(***************************************************************************)
(* SpecOps: the client operations of AnsibleModule and CronModule, each a  *)
(* promise around one fetch: the call sends the request, the server        *)
(* answers (or the transport fails), response.json() parses the body (or   *)
(* fails), and the last then / the catch settles the promise.              *)
(***************************************************************************)

\* the most client operations called in a run
MaxOpCalls == 1

AnsibleOps == {"loadInventory", "getCustomers", "getCustomer", "saveCustomerVars",
               "runPlaybook"}
CronOps == {"getCronJobs", "addCronJob", "toggleCronJob", "deleteCronJob",
            "getSystemStatus", "validateSchedule"}
ClientOps == AnsibleOps \cup CronOps

\* the JSON bodies a server may answer operation op with: status, message
\* and (for the job list) jobs, each possibly missing
BodiesFor(op) ==
    [status : {"none", "success", "error", "started"},
     message : {"undefined", "", "m"},
     jobs : IF op = "getCronJobs" THEN {"undefined", "J1", "J2"} ELSE {"undefined"}]

\* the fallback text of each operation's new Error(data.message || '...')
defaultMessage(op) == "default of " \o op

\* data.message || '...'
messageOrDefault(op, body) ==
    IF body.message \in {"undefined", ""} THEN defaultMessage(op) ELSE body.message

\* resolvesOn with runPlaybook treated like the other operations
resolvesOnSuccessOnly(op, body) ==
    CASE op \in {"loadInventory", "validateSchedule"} -> TRUE
      [] OTHER -> body.status = "success"

\* the condition under which the last then of operation op resolves
resolvesOn(op, body) ==
    CASE op \in {"loadInventory", "validateSchedule"} -> TRUE
      [] op = "runPlaybook" -> body.status \in {"started", "success"}
      [] OTHER -> body.status = "success"

\* the inventory document a parsed body of /api/inventory stands for: the
\* tree itself (a body without status) or an object without the all group
docOfBody(body) ==
    IF body.status = "none"
    THEN AllDoc(TRUE, VarsAB, TRUE, [c \in Customers |-> HostWith(VarsBC)])
    ELSE NoAllDoc

InitOps ==
    /\ CronIdle
    /\ CatIdle
    /\ InvIdle
    /\ TabsIdle
    /\ OpsIdle
    /\ CtrIdle
    /\ RunIdle
    /\ NetIdle
    /\ SecIdle
    /\ JobsIdle

\* all state but the calls of the client operations and the two caches
notOps == <<cronVars, catVarsAll, tabVars, srvInv, loads, saves, loadCalls,
            saveCalls, lastRead, lastLoaded, lastSaved, ctrVars, runVars,
            netVars, secVars, jobVars>>

\* the promise of call r settles
settled(r, body, failed, outcome, error) ==
    [some |-> TRUE, op |-> r.op, body |-> body, failed |-> failed,
     outcome |-> outcome, error |-> error, polls |-> r.fetches]

\* an operation is called: its fetch is sent
CallOp ==
    /\ opCalls < MaxOpCalls
    /\ opCalls' = opCalls + 1
    /\ \E op \in ClientOps :
          opsInFlight' = opsInFlight (+) SetToBag({
              [op |-> op, stage |-> "sent", ok |-> TRUE, body |-> NoBody,
               fetches |-> 1]})
    /\ UNCHANGED <<inventoryData, currentJobs, lastSettled, notOps>>

\* the server answers a request with an HTTP status and a JSON body, with a
\* body that is not JSON, or the transport fails
ServeOp ==
    \E r \in BagToSet(opsInFlight) :
        /\ r.stage = "sent"
        /\ \/ \E ok \in (IF r.op = "getCronJobs" THEN BOOLEAN ELSE {TRUE}),
                 b \in BodiesFor(r.op) :
                 opsInFlight' = replaced(opsInFlight, r,
                                   [r EXCEPT !.stage = "answered", !.ok = ok, !.body = b])
           \/ opsInFlight' = replaced(opsInFlight, r, [r EXCEPT !.stage = "failed"])
        /\ UNCHANGED <<opCalls, inventoryData, currentJobs, lastSettled, notOps>>

\* getCronJobs: if (!response.ok) return fetch('/api/cron/jobs/test')
CronJobsFallback ==
    \E r \in BagToSet(opsInFlight) :
        /\ r.stage = "answered"
        /\ r.op = "getCronJobs" /\ ~r.ok /\ r.fetches = 1
        /\ opsInFlight' = replaced(opsInFlight, r,
                             [r EXCEPT !.stage = "sent", !.body = NoBody, !.fetches = 2])
        /\ UNCHANGED <<opCalls, inventoryData, currentJobs, lastSettled, notOps>>

\* .then(data => { ... resolve(data) or reject(new Error(data.message || ...)) })
OpThen ==
    \E r \in BagToSet(opsInFlight) :
        /\ r.stage = "answered"
        /\ ~(r.op = "getCronJobs" /\ ~r.ok /\ r.fetches = 1)
        /\ opsInFlight' = opsInFlight (-) SetToBag({r})
        /\ lastSettled' =
              IF resolvesOn(r.op, r.body)
              THEN settled(r, r.body, FALSE, "resolved", "")
              ELSE settled(r, r.body, FALSE, "rejected", messageOrDefault(r.op, r.body))
        /\ inventoryData' = IF r.op = "loadInventory" THEN docOfBody(r.body)
                            ELSE inventoryData
        /\ currentJobs' = IF r.op = "getCronJobs" /\ resolvesOn(r.op, r.body)
                          THEN r.body.jobs ELSE currentJobs
        /\ UNCHANGED <<opCalls, notOps>>

\* .catch(error => { console.error(...); reject(error); })
OpCatch ==
    \E r \in BagToSet(opsInFlight) :
        /\ r.stage = "failed"
        /\ opsInFlight' = opsInFlight (-) SetToBag({r})
        /\ lastSettled' = settled(r, NoBody, TRUE, "rejected", "transport")
        /\ UNCHANGED <<opCalls, inventoryData, currentJobs, notOps>>

NextOps ==
    \/ CallOp
    \/ ServeOp
    \/ CronJobsFallback
    \/ OpThen
    \/ OpCatch

SpecOps == InitOps /\ [][NextOps]_vars

(***************************************************************************)
(* Properties of the client operations.                                    *)
(***************************************************************************)

\* C11: for every operation of AnsibleModule and CronModule, a parsed JSON
\* response whose status is "error" rejects the promise with an Error that
\* carries the response's message, and never resolves it.
C11_ErrorResponseRejects ==
    ( /\ lastSettled.some
      /\ lastSettled.op \in ClientOps
      /\ ~lastSettled.failed
      /\ lastSettled.body.status = "error" )
    => /\ lastSettled.outcome = "rejected"
       /\ lastSettled.body.message # "undefined"
             => lastSettled.error = lastSettled.body.message

\* C14: the promise of runPlaybook resolves exactly when the parsed response
\* has status "started" or "success", after the one request the call sent;
\* every other status and every transport or JSON failure rejects it.
C14_RunPlaybookAcceptance ==
    (lastSettled.some /\ lastSettled.op = "runPlaybook")
    => /\ lastSettled.polls = 1
       /\ lastSettled.outcome \in {"resolved", "rejected"}
       /\ lastSettled.outcome = "resolved"
             <=> ( /\ ~lastSettled.failed
                   /\ lastSettled.body.status \in {"started", "success"} )

\* runPlaybook resolved on a response with status "started"
C14_Witness ==
    /\ lastSettled.some
    /\ lastSettled.op = "runPlaybook"
    /\ lastSettled.body.status = "started"
    /\ lastSettled.outcome = "resolved"

\* runPlaybook rejected on a response with status "error"
C14_RejectWitness ==
    /\ lastSettled.some
    /\ lastSettled.op = "runPlaybook"
    /\ lastSettled.body.status = "error"
    /\ lastSettled.outcome = "rejected"
    /\ lastSettled.error = "m"


(***************************************************************************)
(* SpecCtr: the containers panel of DockerContainersUI against the docker  *)
(* host. A request is in flight from its fetch to the delivery of its      *)
(* answer; the host acts on it and the continuation of the promise runs    *)
(* when the answer is delivered. The counters of updateContainerStats and  *)
(* the quick select are functions of the displayed list and not kept.      *)
(***************************************************************************)

\* the most checkbox clicks, redisplays (filter, search, sort), refreshes
\* and batches of the user in a run
MaxToggles == 2
MaxRedisplays == 1
MaxRefreshes == 1
MaxBatches == 1

\* the lists the docker host starts with
CtrStatuses == {"running", "exited"}

InitCtr ==
    /\ CronIdle
    /\ CatIdle
    /\ InvIdle
    /\ TabsIdle
    /\ OpsIdle
    /\ RunIdle
    /\ NetIdle
    /\ SecIdle
    /\ JobsIdle
    /\ srvCtr \in [Containers -> CtrStatuses]
    /\ CtrStart

\* all state but the containers panel
notCtr == <<cronVars, catVarsAll, invVars, tabVars, opsVars, runVars, netVars,
           secVars, jobVars>>

\* DockerContainersModule.filterContainers(containers): the status filter
filterContainers(containers, status) ==
    { k \in Containers :
        /\ containers[k] # "gone"
        /\ status # "" => containers[k] = status }

listCall(by) == [kind |-> "list", by |-> by]
statsCall(by) == [kind |-> "stats", by |-> by]

\* initContainersSection(): loadContainers() is called
InitContainersSection ==
    /\ ctrInit.pc = "idle"
    /\ ctrInit' = [ctrInit EXCEPT !.pc = "loading"]
    /\ ctrReqs' = ctrReqs (+) SetToBag({listCall("init")})
    /\ UNCHANGED <<srvCtr, currentContainers, ctrRows, ctrChecked, ctrSelectAll,
                   ctrFilter, selectedContainers, statsDom, batch, ctrUser, notCtr>>

\* loadContainers: the list arrives; displayContainers(data.containers)
\* rebuilds the table and clears the selection; in initContainersSection the
\* next then calls refreshSystemStats()
ListLoaded ==
    \E r \in BagToSet(ctrReqs) :
        /\ r.kind = "list"
        /\ currentContainers' = srvCtr
        /\ ctrRows' = filterContainers(srvCtr, ctrFilter)
        /\ ctrChecked' = {}
        /\ selectedContainers' = {}
        /\ ctrSelectAll' = FALSE
        /\ IF r.by = "init"
           THEN /\ ctrInit' = [ctrInit EXCEPT !.pc = "stats"]
                /\ ctrReqs' = (ctrReqs (-) SetToBag({r})) (+) SetToBag({statsCall("init")})
           ELSE /\ ctrReqs' = ctrReqs (-) SetToBag({r})
                /\ UNCHANGED ctrInit
        /\ UNCHANGED <<srvCtr, ctrFilter, statsDom, batch, ctrUser, notCtr>>

\* loadContainers: the request fails; the catch puts the error row in the
\* table and rejects, which in initContainersSection rejects the section
ListFailed ==
    \E r \in BagToSet(ctrReqs) :
        /\ r.kind = "list"
        /\ ctrRows' = {}
        /\ ctrChecked' = {}
        /\ ctrReqs' = ctrReqs (-) SetToBag({r})
        /\ ctrInit' = IF r.by = "init" THEN [ctrInit EXCEPT !.pc = "rejected"]
                      ELSE ctrInit
        /\ UNCHANGED <<srvCtr, currentContainers, ctrSelectAll, ctrFilter,
                       selectedContainers, statsDom, batch, ctrUser, notCtr>>

\* refreshSystemStats: the then writes the six fields from data.stats; in
\* initContainersSection the next then calls setupEventListeners()
StatsLoaded ==
    \E r \in BagToSet(ctrReqs) :
        /\ r.kind = "stats"
        /\ statsDom' = [f \in DOMAIN statsDom |-> "server"]
        /\ ctrReqs' = ctrReqs (-) SetToBag({r})
        /\ ctrInit' = IF r.by = "init"
                      THEN [ctrInit EXCEPT !.pc = "ready", !.listeners = TRUE]
                      ELSE ctrInit
        /\ UNCHANGED <<srvCtr, currentContainers, ctrRows, ctrChecked, ctrSelectAll,
                       ctrFilter, selectedContainers, batch, ctrUser, notCtr>>

\* refreshSystemStats: the request fails; the catch writes statsTotal,
\* statsRunning and statsStopped from calculateContainerStats() and then
\* evaluates data.stats.paused, where no data is in scope: the catch throws
\* and the promise of refreshSystemStats rejects, which in
\* initContainersSection skips setupEventListeners and rejects the section
StatsFailed ==
    \E r \in BagToSet(ctrReqs) :
        /\ r.kind = "stats"
        /\ statsDom' = [f \in DOMAIN statsDom |->
                          IF f \in {"total", "running", "stopped"} THEN "local"
                          ELSE statsDom[f]]
        /\ ctrReqs' = ctrReqs (-) SetToBag({r})
        /\ ctrInit' = IF r.by = "init"
                      THEN [ctrInit EXCEPT !.pc = "rejected", !.statsFailed = TRUE]
                      ELSE ctrInit
        /\ UNCHANGED <<srvCtr, currentContainers, ctrRows, ctrChecked, ctrSelectAll,
                       ctrFilter, selectedContainers, batch, ctrUser, notCtr>>

\* refreshContainers(): Promise.all([loadContainers(), refreshSystemStats()])
refreshCalls(reqs) ==
    reqs (+) SetToBag({listCall("refresh")}) (+) SetToBag({statsCall("refresh")})

\* the user refreshes the panel
RefreshContainers ==
    /\ ctrInit.pc # "idle"
    /\ ctrUser.refreshes < MaxRefreshes
    /\ ctrUser' = [ctrUser EXCEPT !.refreshes = @ + 1]
    /\ ctrReqs' = refreshCalls(ctrReqs)
    /\ UNCHANGED <<srvCtr, currentContainers, ctrInit, ctrRows, ctrChecked,
                   ctrSelectAll, ctrFilter, selectedContainers, statsDom, batch, notCtr>>

\* filterContainers() (and alike searchContainers(), sortContainers()):
\* the filter is set and displayContainers redraws the cached list
Redisplay ==
    /\ ctrInit.pc # "idle"
    /\ ctrUser.redisplays < MaxRedisplays
    /\ ctrUser' = [ctrUser EXCEPT !.redisplays = @ + 1]
    /\ \E status \in {"", "running"} :
          /\ ctrFilter' = status
          /\ ctrRows' = filterContainers(currentContainers, status)
    /\ ctrChecked' = {}
    /\ selectedContainers' = {}
    /\ ctrSelectAll' = FALSE
    /\ UNCHANGED <<srvCtr, currentContainers, ctrInit, ctrReqs, statsDom, batch, notCtr>>

\* the user clicks the checkbox of a row: toggleContainerSelection
ToggleContainerSelection ==
    /\ ctrUser.toggles < MaxToggles
    /\ ctrUser' = [ctrUser EXCEPT !.toggles = @ + 1]
    /\ \E k \in ctrRows :
          IF k \in ctrChecked
          THEN /\ ctrChecked' = ctrChecked \ {k}
               /\ selectedContainers' = selectedContainers \ {k}
               /\ ctrSelectAll' = FALSE
          ELSE /\ ctrChecked' = ctrChecked \cup {k}
               /\ selectedContainers' = selectedContainers \cup {k}
               /\ UNCHANGED ctrSelectAll
    /\ UNCHANGED <<srvCtr, currentContainers, ctrInit, ctrReqs, ctrRows, ctrFilter,
                   statsDom, batch, notCtr>>

\* the user clicks #selectAllContainers: toggleSelectAll
ToggleSelectAll ==
    /\ ctrInit.pc # "idle"
    /\ ctrUser.toggles < MaxToggles
    /\ ctrUser' = [ctrUser EXCEPT !.toggles = @ + 1]
    /\ ctrSelectAll' = ~ctrSelectAll
    /\ IF ctrSelectAll'
       THEN /\ ctrChecked' = ctrRows
            /\ selectedContainers' = selectedContainers \cup ctrRows
       ELSE /\ ctrChecked' = {}
            /\ selectedContainers' = selectedContainers \ ctrRows
    /\ UNCHANGED <<srvCtr, currentContainers, ctrInit, ctrReqs, ctrRows, ctrFilter,
                   statsDom, batch, notCtr>>

\* a confirmed batch that sends one request for each container of ids
confirmedBatch(kind, ids) ==
    [kind |-> kind, sent |-> ids, selectionAtConfirm |-> selectedContainers,
     total |-> Cardinality(ids), inFlight |-> ids, completed |-> 0,
     results |-> {}, shown |-> 0, refreshes |-> 0]

\* batchStart() is confirmed: selectedContainers.forEach(id =>
\* startContainer(id) ...), nothing but a toast when the selection is empty
BatchStart ==
    /\ ctrInit.pc # "idle"
    /\ ctrUser.batches < MaxBatches
    /\ batch.inFlight = {}
    /\ ctrUser' = [ctrUser EXCEPT !.batches = @ + 1]
    /\ batch' = confirmedBatch("start", selectedContainers)
    /\ UNCHANGED <<srvCtr, currentContainers, ctrInit, ctrReqs, ctrRows, ctrChecked,
                   ctrSelectAll, ctrFilter, selectedContainers, statsDom, notCtr>>

\* batchRemove() is confirmed: selectedContainers.forEach(id =>
\* removeContainer(id, force, removeVolumes) ...), nothing but a toast when
\* the selection is empty
BatchRemove ==
    /\ ctrInit.pc # "idle"
    /\ ctrUser.batches < MaxBatches
    /\ batch.inFlight = {}
    /\ ctrUser' = [ctrUser EXCEPT !.batches = @ + 1]
    /\ batch' = confirmedBatch("remove", selectedContainers)
    /\ UNCHANGED <<srvCtr, currentContainers, ctrInit, ctrReqs, ctrRows, ctrChecked,
                   ctrSelectAll, ctrFilter, selectedContainers, statsDom, notCtr>>

\* batchStop(): runningContainers.forEach(c => stopContainer(c.id) ...) over
\* the running containers of the cached list, nothing but a toast when none
BatchStop ==
    /\ ctrInit.pc # "idle"
    /\ ctrUser.batches < MaxBatches
    /\ batch.inFlight = {}
    /\ ctrUser' = [ctrUser EXCEPT !.batches = @ + 1]
    /\ batch' = confirmedBatch("stop",
                    { k \in Containers : currentContainers[k] = "running" })
    /\ UNCHANGED <<srvCtr, currentContainers, ctrInit, ctrReqs, ctrRows, ctrChecked,
                   ctrSelectAll, ctrFilter, selectedContainers, statsDom, notCtr>>

\* the status of a container after the docker host performed a request
hostAfter(kind, status) ==
    CASE kind = "start"  -> "running"
      [] kind = "stop"   -> "exited"
      [] kind = "remove" -> "gone"

\* one request of the batch settles: then or catch pushes its result and
\* finally counts it; when the count equals selectedContainers.size (for
\* batchStop: runningContainers.length) the results are shown and
\* refreshContainers() is called (batchRemove then clears the selection)
BatchRequestSettled ==
    \E k \in batch.inFlight, ok \in BOOLEAN :
        LET success == ok /\ srvCtr[k] # "gone"
            done    == batch.completed + 1
            size    == IF batch.kind = "stop" THEN batch.total
                       ELSE Cardinality(selectedContainers)
            all     == done = size
        IN  /\ srvCtr' = IF success
                         THEN [srvCtr EXCEPT ![k] = hostAfter(batch.kind, @)]
                         ELSE srvCtr
            /\ batch' = [batch EXCEPT
                            !.inFlight = @ \ {k},
                            !.completed = done,
                            !.results = @ \cup {<<k, IF success THEN "success" ELSE "error">>},
                            !.shown = IF all THEN @ + 1 ELSE @,
                            !.refreshes = IF all THEN @ + 1 ELSE @]
            /\ ctrReqs' = IF all THEN refreshCalls(ctrReqs) ELSE ctrReqs
            /\ IF all /\ batch.kind = "remove"
               THEN /\ selectedContainers' = {}
                    /\ ctrSelectAll' = FALSE
               ELSE UNCHANGED <<selectedContainers, ctrSelectAll>>
            /\ UNCHANGED <<currentContainers, ctrInit, ctrRows, ctrChecked, ctrFilter,
                           statsDom, ctrUser, notCtr>>

NextCtr ==
    \/ InitContainersSection
    \/ ListLoaded
    \/ ListFailed
    \/ StatsLoaded
    \/ StatsFailed
    \/ RefreshContainers
    \/ Redisplay
    \/ ToggleContainerSelection
    \/ ToggleSelectAll
    \/ BatchStart
    \/ BatchStop
    \/ BatchRemove
    \/ BatchRequestSettled

SpecCtr == InitCtr /\ [][NextCtr]_vars

(***************************************************************************)
(* Properties of the containers panel.                                     *)
(***************************************************************************)

\* C15: when the stats request of initContainersSection fails,
\* refreshSystemStats resolves after falling back to the local statistics,
\* and the section completes with its event listeners registered.
C15_StatsFailureIsolated ==
    ctrInit.statsFailed =>
        /\ ctrInit.pc = "ready"
        /\ ctrInit.listeners
        /\ \A f \in DOMAIN statsDom : statsDom[f] # "blank"

\* C18: once every request of a batchStart or batchRemove has settled, the
\* results of the batch were shown exactly once and one refresh was
\* triggered.
C18_BatchCompletion ==
    ( /\ batch.kind \in {"start", "remove"}
      /\ batch.sent # {}
      /\ batch.inFlight = {} )
    => /\ batch.shown = 1
       /\ batch.refreshes = 1

\* C19: a batch sends requests only for containers that were in the
\* selection when it was confirmed, and none when the selection was empty.
C19_BatchScopedToSelection ==
    batch.kind # "none" => batch.sent \subseteq batch.selectionAtConfirm


(***************************************************************************)
(* SpecRun: the run button of AnsibleUI. The page is taken with a customer *)
(* selected (or none) and with the inventory cache as a loadInventory left *)
(* it; a click computes extra_vars from the cached effective vars and      *)
(* posts them through AnsibleModule.runPlaybook.                           *)
(***************************************************************************)

\* the most clicks on the run button in a run
MaxRunClicks == 1

\* `customer_${mod}_update`
updateKey(mod) == K_customer_ \o mod \o K_UPDATE

\* the vars mappings of a host: every module's update flag missing, true or
\* false, the flag of gateway also a string or the number 0
RunFlagVars ==
    { v \in UNION { [ks -> {Bool(TRUE), Bool(FALSE), Text(<<"n", "o">>), Num(0)}] :
                      ks \in SUBSET { updateKey(modulesList[i]) : i \in DOMAIN modulesList } } :
        \A k \in DOMAIN v :
            k # updateKey(M_gateway) => v[k].type = "boolean" }

\* default vars that switch every module's update on
RunDefaultsAllOn ==
    [k \in { updateKey(modulesList[i]) : i \in DOMAIN modulesList } |-> Bool(TRUE)]

InitRun ==
    /\ CronIdle
    /\ CatIdle
    /\ OpsIdle
    /\ CtrIdle
    /\ RunIdle
    /\ NetIdle
    /\ SecIdle
    /\ JobsIdle
    /\ srvInv = NoAllDoc
    /\ loads = EmptyBag
    /\ saves = EmptyBag
    /\ loadCalls = 0
    /\ saveCalls = 0
    /\ lastRead = NoRead
    /\ lastLoaded = NoLoad
    /\ lastSaved = NoSave
    /\ \E d \in {EmptyObj, RunDefaultsAllOn}, h \in RunFlagVars :
          inventoryData = AllDoc(d # EmptyObj, d, TRUE,
                              [c \in Customers |-> IF c = "c1" THEN HostWith(h)
                                                   ELSE AbsentHost])
    /\ srvCust = [c \in Customers |-> EmptyObj]
    /\ customerSelect \in {"", "c1"}
    /\ custReqs = EmptyBag
    /\ tabsDom = [tabId \in {"modules", "domain", "backup", "test", "database"} |-> <<>>]
    /\ tabsLoaded = NoRead
    /\ tabsDirty = FALSE
    /\ tabEdits = 0
    /\ selects = 0
    /\ customerStateText = "---"
    /\ currentCustomer = ""
    /\ uiSaves = <<>>
    /\ saveClicks = 0
    /\ lastPost = NoPost

\* all state but the run requests
notRun == <<cronVars, catVarsAll, invVars, tabVars, opsVars, ctrVars, netVars,
           secVars, jobVars>>

\* activeUpdates: the update key of every module whose flag is truthy in vars
RECURSIVE activeUpdates(_, _, _)
activeUpdates(vars_, i, acc) ==
    IF i > Len(modulesList)
    THEN acc
    ELSE LET key == updateKey(modulesList[i])
         IN  activeUpdates(vars_, i + 1,
                 IF key \in DOMAIN vars_ /\ truthy(vars_[key])
                 THEN put(acc, key, Bool(TRUE))
                 ELSE acc)

\* Object.keys(activeUpdates).length === modulesList.length ? {} : activeUpdates
extraVarsOf(vars_) ==
    LET active == activeUpdates(vars_, 1, EmptyObj)
    IN  IF Cardinality(DOMAIN active) = Len(modulesList) THEN EmptyObj ELSE active

\* AnsibleUI.runPlaybook(): a warning toast when no customer is selected,
\* else AnsibleModule.runPlaybook(customer, extraVars) posts to /api/run
RunPlaybookClicked ==
    /\ runClicks < MaxRunClicks
    /\ runClicks' = runClicks + 1
    /\ IF customerSelect = ""
       THEN /\ runToast' = "warning"
            /\ UNCHANGED <<runReqs, lastRun>>
       ELSE LET vars_ == getCustomerVars(inventoryData, customerSelect)
                extra == extraVarsOf(vars_)
            IN  /\ runReqs' = runReqs (+) SetToBag({
                       [customer |-> customerSelect, extraVars |-> extra]})
                /\ lastRun' = [some |-> TRUE, customer |-> customerSelect,
                               vars |-> vars_, extraVars |-> extra]
                /\ UNCHANGED runToast
    /\ UNCHANGED notRun

\* the answer of /api/run is delivered and the promise of
\* AnsibleModule.runPlaybook settles: the then of AnsibleUI.runPlaybook
\* toasts by the extra_vars it sent, the catch toasts the error
RunSettled ==
    \E r \in BagToSet(runReqs) :
        /\ runReqs' = runReqs (-) SetToBag({r})
        /\ \/ \E b \in BodiesFor("runPlaybook") :
                 runToast' = IF resolvesOn("runPlaybook", b)
                             THEN IF r.extraVars = EmptyObj THEN "full" ELSE "modules"
                             ELSE "error"
           \/ runToast' = "error"
        /\ UNCHANGED <<runClicks, lastRun, notRun>>

NextRun ==
    \/ RunPlaybookClicked
    \/ RunSettled

SpecRun == InitRun /\ [][NextRun]_vars

\* the modules whose update flag is truthy in a vars mapping
truthyModules(vars_) ==
    { i \in DOMAIN modulesList :
        /\ updateKey(modulesList[i]) \in DOMAIN vars_
        /\ truthy(vars_[updateKey(modulesList[i])]) }

\* C17: the run button sends empty extra_vars exactly when every module's
\* update flag is truthy in the customer's effective vars, and otherwise
\* sends exactly customer_<m>_update: true for the modules whose flag is
\* truthy.
C17_FullUpdateIffAllFlags ==
    lastRun.some =>
        LET on == truthyModules(lastRun.vars)
        IN  /\ lastRun.extraVars = EmptyObj <=> on = DOMAIN modulesList
            /\ on # DOMAIN modulesList =>
                  lastRun.extraVars =
                      [k \in { updateKey(modulesList[i]) : i \in on } |-> Bool(TRUE)]


(***************************************************************************)
(* SpecNet: the networks panel. DockerNetworksModule caches the list that  *)
(* /api/docker/networks answered; DockerNetworksUI removes a network from  *)
(* its row button or from the remove-by-ID/name input.                     *)
(***************************************************************************)

\* the most removals the user asks for in a run
MaxNetClicks == 2

\* the order in which the server lists its networks
NetOrder == << <<"a", "b">>, <<"b", "c">> >>

\* the name of a network
netName(id) == IF id = <<"a", "b">> THEN <<"w">> ELSE <<"d">>

\* the texts typed into the remove-by-ID/name input
NetTexts == {<<"b">>, <<"w">>, <<"b", "c">>, <<"z">>}

InitNet ==
    /\ CronIdle
    /\ CatIdle
    /\ InvIdle
    /\ TabsIdle
    /\ OpsIdle
    /\ CtrIdle
    /\ RunIdle
    /\ SecIdle
    /\ JobsIdle
    /\ srvNets \in [NetIds -> [present : {TRUE}, containers : {0, 1}]]
    /\ NetStart

\* all state but the networks panel
notNet == <<cronVars, catVarsAll, invVars, tabVars, opsVars, ctrVars, runVars,
           secVars, jobVars>>

\* data.networks of /api/docker/networks: the present networks in order
RECURSIVE networksOf(_, _)
networksOf(srv, i) ==
    IF i > Len(NetOrder)
    THEN <<>>
    ELSE LET id == NetOrder[i]
         IN  (IF srv[id].present
              THEN << [id |-> id, name |-> netName(id),
                       containers |-> srv[id].containers] >>
              ELSE <<>>) \o networksOf(srv, i + 1)

\* networks.find(n => ...): the smallest of the indices of the cache whose
\* network matches, 0 when none does
findIndex(hits) ==
    IF hits = {}
    THEN 0
    ELSE CHOOSE i \in hits : \A j \in hits : i <= j

\* n.id === networkId
matchesId(networkId, n) == n.id = networkId

\* n.id.includes(networkId) || n.name === networkId
matchesIdOrName(networkId, n) == includes(n.id, networkId) \/ n.name = networkId

\* networks.find(n => n.id === networkId) of confirmRemoveNetwork, as an
\* index into the cache
rowLookup(networks, networkId) ==
    findIndex({ i \in DOMAIN networks : matchesId(networkId, networks[i]) })

\* networks.find(n => n.id.includes(networkId) || n.name === networkId) of
\* removeNetwork, as an index into the cache
removeLookup(networks, networkId) ==
    findIndex({ i \in DOMAIN networks : matchesIdOrName(networkId, networks[i]) })

\* DockerNetworksModule.loadNetworks(): GET /api/docker/networks
netListCall == [kind |-> "list", id |-> <<>>, path |-> ""]

\* DockerNetworksModule.removeNetwork(id): POST /api/docker/networks/<id>/remove
netRemoveCall(id, path) == [kind |-> "remove", id |-> id, path |-> path]

\* getNetworkStats().total as refreshStats writes it: the size of the cache
\* at the time of the call
statsTotal(networks) == Len(networks)

\* initNetworksSection(): loadNetworks(), refreshStats(), setupEventListeners()
InitNetworksSection ==
    /\ netPc = "start"
    /\ netPc' = "ready"
    /\ netReqs' = netReqs (+) SetToBag({netListCall})
    /\ netToast' = "loading"
    /\ totalNetworks' = statsTotal(currentNetworks)
    /\ UNCHANGED <<srvNets, currentNetworks, networkIdToRemove, netClicks,
                   lastRemove, notNet>>

\* the answer of /api/docker/networks arrives: on status success the module
\* replaces its cache and the UI displays it, otherwise the UI shows the error
NetListSettled ==
    /\ netListCall \in BagToSet(netReqs)
    /\ netReqs' = netReqs (-) SetToBag({netListCall})
    /\ \/ /\ currentNetworks' = networksOf(srvNets, 1)
          /\ netToast' = "loaded"
       \/ /\ netToast' = "load error"
          /\ UNCHANGED currentNetworks
    /\ UNCHANGED <<netPc, srvNets, networkIdToRemove, netClicks, totalNetworks,
                   lastRemove, notNet>>

\* the user types into the remove-by-ID/name input
TypeNetworkId(text) ==
    /\ netPc = "ready"
    /\ networkIdToRemove # text
    /\ netClicks < MaxNetClicks
    /\ networkIdToRemove' = text
    /\ UNCHANGED <<netPc, srvNets, currentNetworks, netReqs, netClicks,
                   totalNetworks, netToast, lastRemove, notNet>>

\* confirmRemoveNetwork(networkId): the row button
ConfirmRemoveNetwork(networkId, ok) ==
    /\ netPc = "ready"
    /\ netClicks < MaxNetClicks
    /\ netClicks' = netClicks + 1
    /\ LET i == rowLookup(currentNetworks, networkId)
       IN  IF i = 0
           THEN UNCHANGED <<netReqs, netToast, lastRemove>>
           ELSE IF currentNetworks[i].containers > 0
           THEN /\ netToast' = "has containers"
                /\ UNCHANGED <<netReqs, lastRemove>>
           ELSE IF ok
           THEN /\ netToast' = "removing"
                /\ netReqs' = netReqs (+) SetToBag({netRemoveCall(networkId, "row")})
                /\ lastRemove' = [some |-> TRUE, id |-> networkId,
                                  containers |-> currentNetworks[i].containers,
                                  path |-> "row"]
           ELSE UNCHANGED <<netReqs, netToast, lastRemove>>
    /\ UNCHANGED <<netPc, srvNets, currentNetworks, networkIdToRemove,
                   totalNetworks, notNet>>

\* removeNetwork(): removal by the ID or name typed into the input
RemoveNetwork(ok) ==
    /\ netPc = "ready"
    /\ netClicks < MaxNetClicks
    /\ netClicks' = netClicks + 1
    /\ IF networkIdToRemove = <<>>
       THEN /\ netToast' = "enter id"
            /\ UNCHANGED <<netReqs, lastRemove>>
       ELSE LET i == removeLookup(currentNetworks, networkIdToRemove)
            IN  IF i = 0
                THEN /\ netToast' = "not found"
                     /\ UNCHANGED <<netReqs, lastRemove>>
                ELSE IF ok
                THEN /\ netToast' = "removing"
                     /\ netReqs' = netReqs (+)
                            SetToBag({netRemoveCall(currentNetworks[i].id, "input")})
                     /\ lastRemove' = [some |-> TRUE, id |-> currentNetworks[i].id,
                                       containers |-> currentNetworks[i].containers,
                                       path |-> "input"]
                ELSE UNCHANGED <<netReqs, netToast, lastRemove>>
    /\ UNCHANGED <<netPc, srvNets, currentNetworks, networkIdToRemove,
                   totalNetworks, notNet>>

\* the server removes a present network that has no container
netAfterRemove(srv, id) ==
    IF srv[id].present /\ srv[id].containers = 0
    THEN [srv EXCEPT ![id].present = FALSE]
    ELSE srv

\* the answer of a remove request arrives: on status success the UI toasts,
\* calls refreshNetworks() (loadNetworks and refreshStats) and, on the input
\* path, clears the input; otherwise it toasts the error
NetRemoveSettled ==
    \E r \in BagToSet(netReqs) :
        /\ r.kind = "remove"
        /\ \/ /\ srvNets[r.id].present /\ srvNets[r.id].containers = 0
              /\ srvNets' = netAfterRemove(srvNets, r.id)
              /\ netReqs' = (netReqs (-) SetToBag({r})) (+) SetToBag({netListCall})
              /\ netToast' = "refreshing"
              /\ totalNetworks' = statsTotal(currentNetworks)
              /\ networkIdToRemove' = IF r.path = "input" THEN <<>>
                                      ELSE networkIdToRemove
           \/ /\ netReqs' = netReqs (-) SetToBag({r})
              /\ netToast' = "remove error"
              /\ UNCHANGED <<srvNets, totalNetworks, networkIdToRemove>>
        /\ UNCHANGED <<netPc, currentNetworks, netClicks, lastRemove, notNet>>

NetTypes == \E text \in NetTexts : TypeNetworkId(text)

NetRowRemoves == \E id \in NetIds, ok \in BOOLEAN : ConfirmRemoveNetwork(id, ok)

NetInputRemoves == \E ok \in BOOLEAN : RemoveNetwork(ok)

NextNet ==
    \/ InitNetworksSection
    \/ NetListSettled
    \/ NetTypes
    \/ NetRowRemoves
    \/ NetInputRemoves
    \/ NetRemoveSettled

SpecNet == InitNet /\ [][NextNet]_vars

\* C20: the networks UI never sends a remove request for a network whose
\* cached container count is greater than 0, neither from the row button
\* (confirmRemoveNetwork) nor from removal by ID or name (removeNetwork).
C20_NoRemoveWithContainers ==
    lastRemove.some => lastRemove.containers = 0


(***************************************************************************)
(* SpecSec: the section loader of the page. loadSection fetches a section  *)
(* and appends its container to mainContent; showSection, preloadSections, *)
(* unloadSection and clearSectionCache work on loadedSections and on the   *)
(* containers. What initializeSection starts inside a shown section is the *)
(* matter of the other specifications.                                     *)
(***************************************************************************)

\* the most calls the user makes in a run
MaxSecCalls == 3

\* the sections of the model
SectionIds == {"home", "customers", "images"}

\* importantSections of preloadSections
importantSections == <<"customers", "images">>

InitSec ==
    /\ CronIdle
    /\ CatIdle
    /\ InvIdle
    /\ TabsIdle
    /\ OpsIdle
    /\ CtrIdle
    /\ RunIdle
    /\ NetIdle
    /\ SecIdle
    /\ JobsIdle

\* all state but the section loader
notSec == <<cronVars, catVarsAll, invVars, tabVars, opsVars, ctrVars, runVars,
           netVars, jobVars>>

\* document.getElementById(`${sectionId}Section`): the index of the first
\* element with that id in document order, 0 for null
getElementById(content, sectionId) ==
    LET hits == { i \in DOMAIN content : content[i].section = sectionId }
    IN  IF hits = {} THEN 0 ELSE CHOOSE i \in hits : \A j \in hits : i <= j

\* element.style.display = d for the element at index i
setDisplay(content, i, d) ==
    [content EXCEPT ![i].display = d]

\* document.querySelectorAll('.content-section').forEach(s => s.style.display = 'none')
hideAll(content) ==
    [i \in DOMAIN content |-> [content[i] EXCEPT !.display = "none"]]

\* the elements of content whose index is not in drop, in order
RECURSIVE withoutIndices(_, _, _)
withoutIndices(content, drop, i) ==
    IF i > Len(content)
    THEN <<>>
    ELSE (IF i \in drop THEN <<>> ELSE << content[i] >>)
         \o withoutIndices(content, drop, i + 1)

\* the fetch of /section/<id> that loadSection awaits, with who awaits it
sectionFetch(sectionId, caller) == [section |-> sectionId, caller |-> caller]

\* what a call records of the state it found
secCall(op, sectionId, fetched) ==
    [op |-> op, section |-> sectionId, fetched |-> fetched,
     hadError |-> /\ sectionId \in loadedSections
                  /\ \E i \in DOMAIN mainContent :
                        /\ mainContent[i].section = sectionId
                        /\ mainContent[i].kind = "error",
     loadedBefore |-> loadedSections, contentBefore |-> mainContent,
     currentBefore |-> currentSection]

\* loadSection(sectionId) called on its own, as the retry button of the error
\* panel and window.loadSection call it: a loaded section is only displayed
\* (a TypeError rejects the promise when its element is missing), any other
\* is fetched
LoadSection(sectionId) ==
    /\ secCalls < MaxSecCalls
    /\ secCalls' = secCalls + 1
    /\ secUsed' = secUsed \cup {"loadSection"}
    /\ IF sectionId \in loadedSections
       THEN LET i == getElementById(mainContent, sectionId)
            IN  /\ mainContent' = IF i = 0 THEN mainContent
                                  ELSE setDisplay(mainContent, i, "block")
                /\ secLast' = secCall("loadSection", sectionId, FALSE)
                /\ UNCHANGED secFetches
       ELSE /\ secFetches' = secFetches (+) SetToBag({sectionFetch(sectionId, "load")})
            /\ secLast' = secCall("loadSection", sectionId, TRUE)
            /\ UNCHANGED mainContent
    /\ UNCHANGED <<currentSection, loadedSections, menuTitle, notSec>>

\* showSection(sectionId, title): hides every section, then loads the section
\* when it is not loaded, else shows it and names it current; writes the title
ShowSection(sectionId) ==
    /\ secCalls < MaxSecCalls
    /\ secCalls' = secCalls + 1
    /\ secUsed' = secUsed \cup {"showSection"}
    /\ menuTitle' = sectionId
    /\ IF sectionId \notin loadedSections
       THEN /\ mainContent' = hideAll(mainContent)
            /\ secFetches' = secFetches (+) SetToBag({sectionFetch(sectionId, "show")})
            /\ secLast' = secCall("showSection", sectionId, TRUE)
            /\ UNCHANGED currentSection
       ELSE LET hidden == hideAll(mainContent)
                i == getElementById(hidden, sectionId)
            IN  /\ mainContent' = IF i = 0 THEN hidden
                                  ELSE setDisplay(hidden, i, "block")
                /\ currentSection' = IF i = 0 THEN currentSection ELSE sectionId
                /\ secLast' = secCall("showSection", sectionId, FALSE)
                /\ UNCHANGED secFetches
    /\ UNCHANGED <<loadedSections, notSec>>

\* the important sections preloadSections finds not loaded
RECURSIVE toPreload(_)
toPreload(i) ==
    IF i > Len(importantSections)
    THEN EmptyBag
    ELSE (IF importantSections[i] \notin loadedSections
          THEN SetToBag({sectionFetch(importantSections[i], "preload")})
          ELSE EmptyBag) (+) toPreload(i + 1)

\* preloadSections(): loads every important section that is not loaded
PreloadSections ==
    /\ secCalls < MaxSecCalls
    /\ secCalls' = secCalls + 1
    /\ secUsed' = secUsed \cup {"preloadSections"}
    /\ secFetches' = secFetches (+) toPreload(1)
    /\ secLast' = secCall("preloadSections", "", toPreload(1) # EmptyBag)
    /\ UNCHANGED <<currentSection, loadedSections, mainContent, menuTitle, notSec>>

\* the fetch of a loadSection settles: the section's content, or on a failure
\* the error panel, is appended in a new container and the section is added to
\* loadedSections; then the caller's then runs: showSection shows the element
\* getElementById finds and names the section current, preloadSections hides
\* that element
FetchSettled ==
    \E r \in BagToSet(secFetches), ok \in BOOLEAN :
        LET appended == Append(mainContent,
                            Element(r.section, IF ok THEN "content" ELSE "error", ""))
            i == getElementById(appended, r.section)
        IN  /\ secFetches' = secFetches (-) SetToBag({r})
            /\ loadedSections' = loadedSections \cup {r.section}
            /\ mainContent' = CASE r.caller = "show" -> setDisplay(appended, i, "block")
                                [] r.caller = "preload" -> setDisplay(appended, i, "none")
                                [] OTHER -> appended
            /\ currentSection' = IF r.caller = "show" THEN r.section
                                 ELSE currentSection
            /\ secLast' = [NoSecCall EXCEPT !.op = "settled", !.section = r.section]
            /\ UNCHANGED <<menuTitle, secCalls, secUsed, notSec>>

\* unloadSection(sectionId): hides the section's element, never home
UnloadSection(sectionId) ==
    /\ secCalls < MaxSecCalls
    /\ secCalls' = secCalls + 1
    /\ secUsed' = secUsed \cup {"unloadSection"}
    /\ secLast' = secCall("unloadSection", sectionId, FALSE)
    /\ LET i == getElementById(mainContent, sectionId)
       IN  mainContent' = IF sectionId = "home" \/ i = 0 THEN mainContent
                          ELSE setDisplay(mainContent, i, "none")
    /\ UNCHANGED <<currentSection, loadedSections, secFetches, menuTitle, notSec>>

\* sectionsToRemove of clearSectionCache: for every loaded section but home
\* the element getElementById finds
sectionsToRemove(content, loaded) ==
    { getElementById(content, s) : s \in loaded \ {"home"} } \ {0}

\* loadedSections after clearSectionCache: clear(), then add('home')
cacheAfterClearEmpty == {}

cacheAfterClear == {"home"}

\* clearSectionCache()
ClearSectionCache ==
    /\ secCalls < MaxSecCalls
    /\ secCalls' = secCalls + 1
    /\ secUsed' = secUsed \cup {"clearSectionCache"}
    /\ secLast' = secCall("clearSectionCache", "", FALSE)
    /\ mainContent' = withoutIndices(mainContent,
                          sectionsToRemove(mainContent, loadedSections), 1)
    /\ loadedSections' = cacheAfterClear
    /\ UNCHANGED <<currentSection, secFetches, menuTitle, notSec>>

LoadsSection == \E s \in SectionIds : LoadSection(s)

ShowsSection == \E s \in SectionIds : ShowSection(s)

UnloadsSection == \E s \in SectionIds : UnloadSection(s)

NextSec ==
    \/ LoadsSection
    \/ ShowsSection
    \/ PreloadSections
    \/ FetchSettled
    \/ UnloadsSection
    \/ ClearSectionCache

SpecSec == InitSec /\ [][NextSec]_vars

\* C21: after a section load has failed, calling loadSection for that
\* section again (the retry button of the error panel) issues a new fetch
\* for the section.
C21_RetryFetchesAgain ==
    (secLast.op = "loadSection" /\ secLast.hadError) => secLast.fetched

\* C22: for every section id at most one container element <id>Section
\* exists in the page, in every reachable state.
C22_OneContainerPerSection ==
    \A s \in SectionIds :
        Cardinality({ i \in DOMAIN mainContent : mainContent[i].section = s }) <= 1

\* the elements shown by their inline style
visibleSections == { i \in DOMAIN mainContent : mainContent[i].display = "block" }

\* C23: when only showSection and preloadSections were called and every
\* pending load has settled, exactly one content section is visible, it is
\* the section of the most recent showSection call, and currentSection
\* names that section.
C23_LastShownIsVisible ==
    ( /\ secFetches = EmptyBag
      /\ "showSection" \in secUsed
      /\ secUsed \subseteq {"showSection", "preloadSections"} )
    => /\ Cardinality(visibleSections) = 1
       /\ \A i \in visibleSections : mainContent[i].section = menuTitle
       /\ currentSection = menuTitle

\* C24: loadedSections always contains home; unloadSection('home') changes
\* nothing; clearSectionCache leaves loadedSections equal to {home} and
\* removes only containers of sections other than home.
C24_HomeStays ==
    /\ "home" \in loadedSections
    /\ (secLast.op = "unloadSection" /\ secLast.section = "home")
       => /\ loadedSections = secLast.loadedBefore
          /\ mainContent = secLast.contentBefore
          /\ currentSection = secLast.currentBefore
    /\ secLast.op = "clearSectionCache"
       => /\ loadedSections = {"home"}
          /\ \A i \in DOMAIN secLast.contentBefore :
                secLast.contentBefore[i].section = "home"
                => \E j \in DOMAIN mainContent : mainContent[j] = secLast.contentBefore[i]
          /\ Len(SelectSeq(mainContent, LAMBDA e : e.section = "home"))
                = Len(SelectSeq(secLast.contentBefore, LAMBDA e : e.section = "home"))

\* the cache was cleared while a section other than home was loaded and had
\* its container in the page
C24_Witness ==
    /\ secLast.op = "clearSectionCache"
    /\ secLast.loadedBefore # {"home"}
    /\ Len(secLast.contentBefore) > Len(mainContent)

\* unloadSection('home') was called while other sections were loaded
C24_UnloadHomeWitness ==
    /\ secLast.op = "unloadSection"
    /\ secLast.section = "home"
    /\ Len(mainContent) > 1


(***************************************************************************)
(* SpecJobs: the job list of the cron panel. CronUI.loadCronJobs calls     *)
(* CronModule.getCronJobs, which caches the jobs of a success answer; on a *)
(* failure loadCronJobs displays two sample jobs.                          *)
(***************************************************************************)

\* the most calls of loadCronJobs in a run
MaxJobLoads == 4

InitJobs ==
    /\ CronIdle
    /\ CatIdle
    /\ InvIdle
    /\ TabsIdle
    /\ OpsIdle
    /\ CtrIdle
    /\ RunIdle
    /\ NetIdle
    /\ SecIdle
    /\ JobsIdle

\* all state but the job list and its cache
notJobs == <<cronVars, catVarsAll, invVars, tabVars, opsInFlight, opCalls,
            lastSettled, ctrVars, runVars, netVars, secVars>>

\* fetch('/api/cron/jobs/real') or, after it, fetch('/api/cron/jobs/test')
jobsFetch(endpoint) == [endpoint |-> endpoint]

\* CronModule.getCurrentJobs(): the cache of the module, or the sample jobs
\* once loadCronJobs has replaced the function
getCurrentJobs ==
    IF getCurrentJobsFn = "module" THEN currentJobs ELSE "sample"

\* loadCronJobs(): CronModule.getCronJobs() fetches /api/cron/jobs/real
LoadCronJobs ==
    /\ jobLoads < MaxJobLoads
    /\ jobLoads' = jobLoads + 1
    /\ jobReqs' = jobReqs (+) SetToBag({jobsFetch("real")})
    /\ UNCHANGED <<currentJobs, getCurrentJobsFn, cronJobsTable, lastJobsLoad,
                   notJobs>>

\* getCronJobs: if (!response.ok) return fetch('/api/cron/jobs/test')
JobsFallback ==
    /\ jobsFetch("real") \in BagToSet(jobReqs)
    /\ jobReqs' = replaced(jobReqs, jobsFetch("real"), jobsFetch("test"))
    /\ UNCHANGED <<currentJobs, getCurrentJobsFn, cronJobsTable, jobLoads,
                   lastJobsLoad, notJobs>>

\* the answer is read as JSON: on status success getCronJobs caches data.jobs
\* and the then of loadCronJobs displays them (updateJobsInfo throws on
\* missing jobs, which the catch takes); on any other answer and on a failed
\* fetch the catch displays the samples and replaces getCurrentJobs
JobsSettled ==
    \E r \in BagToSet(jobReqs) :
        /\ jobReqs' = jobReqs (-) SetToBag({r})
        /\ \/ \E b \in BodiesFor("getCronJobs") :
                 IF resolvesOn("getCronJobs", b)
                 THEN /\ currentJobs' = b.jobs
                      /\ IF b.jobs # "undefined"
                         THEN /\ cronJobsTable' = b.jobs
                              /\ lastJobsLoad' = [some |-> TRUE, ok |-> TRUE,
                                                  jobs |-> b.jobs,
                                                  endpoint |-> r.endpoint]
                              /\ UNCHANGED getCurrentJobsFn
                         ELSE /\ cronJobsTable' = "sample"
                              /\ getCurrentJobsFn' = "sample"
                              /\ lastJobsLoad' = [some |-> TRUE, ok |-> FALSE,
                                                  jobs |-> "sample",
                                                  endpoint |-> r.endpoint]
                 ELSE /\ cronJobsTable' = "sample"
                      /\ getCurrentJobsFn' = "sample"
                      /\ lastJobsLoad' = [some |-> TRUE, ok |-> FALSE,
                                          jobs |-> "sample",
                                          endpoint |-> r.endpoint]
                      /\ UNCHANGED currentJobs
           \/ /\ cronJobsTable' = "sample"
              /\ getCurrentJobsFn' = "sample"
              /\ lastJobsLoad' = [some |-> TRUE, ok |-> FALSE, jobs |-> "sample",
                                  endpoint |-> r.endpoint]
              /\ UNCHANGED currentJobs
        /\ UNCHANGED <<jobLoads, notJobs>>

NextJobs ==
    \/ LoadCronJobs
    \/ JobsFallback
    \/ JobsSettled

SpecJobs == InitJobs /\ [][NextJobs]_vars

\* C25: when the latest settled loadCronJobs succeeded,
\* CronModule.getCurrentJobs() returns the job list of that response, also
\* when an earlier loadCronJobs failed and displayed the sample jobs.
C25_CurrentJobsAfterSuccess ==
    (lastJobsLoad.some /\ lastJobsLoad.ok) => getCurrentJobs = lastJobsLoad.jobs

====
